---- MODULE Spec2Model ----
(***************************************************************************)
(* Model of the taggedpdf core: bounding boxes (taggedpdf/bbox.py), the    *)
(* structure tree with its page sets, content and bbox cache               *)
(* (taggedpdf/structtree.py), content extraction (taggedpdf/content.py)    *)
(* and the association of content with the tree (taggedpdf/taggedpdf.py).  *)
(*                                                                         *)
(* Python's None is modelled by a value of the same shape as the values it *)
(* stands in for: NoneBox (the empty tuple) for an absent BBox, None (-1)  *)
(* for an absent integer or node.                                          *)
(***************************************************************************)
EXTENDS Integers, Sequences, FiniteSets, TLC

VARIABLES
    \* ---- structure tree state (StructElemBase fields, per node)
    pages,                  \* node -> set of page indices        (_pages)
    bbox_cache,             \* node -> [valid, box]               (_bbox_cache)
    leaf_content,           \* leaf -> page -> list of items      (_content_by_page)
    \* ---- TaggedPdf.__init__ / TaggedContentExtractor state
    pc,                     \* position in TaggedPdf.__init__
    exc,                    \* the exception that ended it, "" if none
    page_struct_parents,    \* page -> declared /StructParents value or None
    reg_idx,                \* next page of the registration loop
    page_index,             \* TaggedContentExtractor.page_index
    current_page,           \* TRUE while a page is being interpreted
    tag_stack,              \* TaggedContentExtractor._tag_stack
    content_by_page,        \* TaggedContent.content_by_page
    items_by_page_and_mcid, \* TaggedContent.items_by_page_and_mcid (key order kept)
    next_bucket,            \* next (page, mcid) bucket of the association loop
    nonmarked_by_page,      \* TaggedPdf.nonmarked_by_page
    \* ---- BBox operations applied to drawn boxes
    boxA, boxB, boxOp, boxOut,
    \* ---- StructTreeRoot construction
    root,                   \* the /StructTreeRoot dictionary     (StructTreeRoot.root)
    struct_tree_root,       \* the outcome: [exc, children, element_map]
    build_pc,               \* "start" before the constructor ran, "built" after
    \* ---- attribute resolution of one StructElem (structtree.py:306-316)
    elem_A,                 \* the element's /A entry
    elem_C,                 \* the element's /C entry
    class_map,              \* StructTreeRoot.class_map
    attributes,             \* StructElem.attributes
    attrib_classes,         \* StructElem.attrib_classes
    class_idx,              \* position of the loop over attrib_classes
    attr_pc,                \* position in the attribute part of __init__
    attr_exc,               \* the exception that ended it, "" if none
    \* ---- split_into_columns applied to a drawn item list
    layout_items,           \* the items passed in
    columns,                \* the outcome: [exc, val]
    layout_pc,              \* "start" before the call, "split" after
    \* ---- candidate annotations of a page (annotate._get_annotations)
    struct_types,           \* element -> resolved structure type, without the "/"
    annotations,            \* the outcome of the last call: [exc, val]
    annot_page,             \* the page of the last call
    annot_pc,               \* "build" while the tree is filled, "annotated" after a call
    \* ---- eliminate_overlaps on the annotation list of a page
    ov_input,               \* annotation (its position in the list) -> its bbox
    ov_output,              \* the outcome: [exc, val], val the annotations kept
    ov_pc,                  \* "start" before the call, "done" after
    \* ---- extend_table_bboxes
    ext_tables,             \* Table annotation (its position) -> its bbox
    ext_nonmarked,          \* the layout items outside marked content: [kind, bbox]
    ext_first,              \* the outcome of the first run: [exc, val]
    ext_second,             \* the outcome of the second run on the first's tables
    ext_pc,                 \* "start", "first", "second"
    \* ---- caption assignment
    cap_annotations,        \* the annotations of a page: [type, bbox, text]
    cap_output,             \* the annotations after the pass
    cap_log,                \* table or figure -> the candidates tested and relabeled for it
    cap_pc,                 \* "start" before the pass, "done" after
    \* ---- the loop of extend_table_bboxes, pass by pass
    loop_tables,            \* Table annotation (its position) -> its bbox
    loop_candidates,        \* the candidates of the pass to come
    loop_passes,            \* the passes made
    loop_pc,                \* "start", "loop", "done", "raised"
    \* ---- two get_bbox calls on one node, one per page, step by step
    race_node,              \* the node both calls are on
    race_pc,                \* page of the call -> "wait", "call", "assign", "fill", "get", "done"
    race_todo,              \* page of the call -> the pages its loop has still to fill
    race_ret                \* page of the call -> its outcome [exc, val]

treeVars == <<pages, bbox_cache, leaf_content>>
initVars == <<pc, exc, page_struct_parents, reg_idx, page_index, current_page,
              tag_stack, content_by_page, items_by_page_and_mcid, next_bucket,
              nonmarked_by_page>>
boxVars == <<boxA, boxB, boxOp, boxOut>>
buildVars == <<root, struct_tree_root, build_pc>>
attrVars == <<elem_A, elem_C, class_map, attributes, attrib_classes, class_idx,
              attr_pc, attr_exc>>
layoutVars == <<layout_items, columns, layout_pc>>
annotVars == <<struct_types, annotations, annot_page, annot_pc>>
overlapVars == <<ov_input, ov_output, ov_pc>>
extendVars == <<ext_tables, ext_nonmarked, ext_first, ext_second, ext_pc>>
captionVars == <<cap_annotations, cap_output, cap_log, cap_pc>>
loopVars == <<loop_tables, loop_candidates, loop_passes, loop_pc>>
raceVars == <<race_node, race_pc, race_todo, race_ret>>
lateVars == <<loopVars, raceVars>>
restVars == <<overlapVars, extendVars, captionVars, lateVars>>
moreVars == <<layoutVars, annotVars, restVars>>
pureVars == <<boxVars, buildVars, attrVars, moreVars>>
vars == <<treeVars, initVars, pureVars>>

None == 0 - 1

(***************************************************************************)
(* Bounds                                                                  *)
(***************************************************************************)
MaxCoord == 2       \* box coordinates range over 0..MaxCoord
MaxItems == 2       \* content items produced / attached in one run
MaxDepth == 2       \* nesting depth of marked-content tags
MaxMcid == 1        \* sequence ids range over 0..MaxMcid

(***************************************************************************)
(* taggedpdf/bbox.py                                                       *)
(***************************************************************************)
NoneBox == <<>>

BBox(llx, lly, urx, ury) == <<llx, lly, urx, ury>>

llx(b) == b[1]
lly(b) == b[2]
urx(b) == b[3]
ury(b) == b[4]

Coords == 0..MaxCoord

\* the boxes with llx <= urx and lly <= ury
Boxes == {b \in Coords \X Coords \X Coords \X Coords :
              llx(b) <= urx(b) /\ lly(b) <= ury(b)}

Min(S) == CHOOSE x \in S : \A y \in S : x <= y
Max(S) == CHOOSE x \in S : \A y \in S : x >= y

Range(s) == {s[i] : i \in DOMAIN s}

is_empty(b) == llx(b) >= urx(b) \/ lly(b) >= ury(b)

\* BBox.Union over a list of boxes
Union(bboxes) ==
    IF bboxes = <<>> THEN NoneBox
    ELSE BBox(Min({llx(b) : b \in Range(bboxes)}),
              Min({lly(b) : b \in Range(bboxes)}),
              Max({urx(b) : b \in Range(bboxes)}),
              Max({ury(b) : b \in Range(bboxes)}))

\* BBox.Intersection over a list of boxes
Intersection(bboxes) ==
    IF bboxes = <<>> THEN NoneBox
    ELSE LET isect == BBox(Max({llx(b) : b \in Range(bboxes)}),
                           Max({lly(b) : b \in Range(bboxes)}),
                           Min({urx(b) : b \in Range(bboxes)}),
                           Min({ury(b) : b \in Range(bboxes)}))
         IN  IF is_empty(isect) THEN NoneBox ELSE isect

union(self, other) == Union(<<self, other>>)

intersection(self, other) == Intersection(<<self, other>>)

\* BBox.contains: the intersection with other equals other
contains(self, other) == intersection(self, other) = other

width(b) == urx(b) - llx(b)
height(b) == ury(b) - lly(b)
area(b) == width(b) * height(b)

\* a / b of Python: the quotient as the pair of its terms, ZeroDivisionError
\* for a zero divisor
Quotient(a, b) ==
    IF b = 0 THEN [exc |-> "ZeroDivisionError", num |-> 0, den |-> 1]
    ELSE [exc |-> "", num |-> a, den |-> b]

\* BBox.jaccard: the area of the intersection is read without a test for None
jaccard(self, other) ==
    LET isect == intersection(self, other)
    IN  IF isect = NoneBox
        THEN [exc |-> "AttributeError", num |-> 0, den |-> 1]
        ELSE Quotient(area(isect), area(self) + area(other) - area(isect))

\* BBox.relative_overlap
relative_overlap(self, other) ==
    LET isect == intersection(self, other)
    IN  IF isect = NoneBox
        THEN [exc |-> "", num |-> 0, den |-> 1]
        ELSE Quotient(area(isect), area(self))

\* geometric inclusion of box b in box a (used to state claims, not code)
Covers(a, b) ==
    /\ a # NoneBox
    /\ llx(a) <= llx(b) /\ lly(a) <= lly(b)
    /\ urx(b) <= urx(a) /\ ury(b) <= ury(a)

(***************************************************************************)
(* The structure tree the operations run on: the tree StructTreeRoot has   *)
(* built from a document of two pages.                                     *)
(*    1  StructElem (top level)       children 2                           *)
(*    2  StructElem, /BBox attribute  children 3, 4                        *)
(*    3  MCIDStructElem, mcid 0                                            *)
(*    4  MCIDStructElem, mcid 1                                            *)
(***************************************************************************)
Nodes == {1, 2, 3, 4}
Elements == {1, 2}
Leaves == {3, 4}
Pages == {0, 1}

\* StructElemBase.parent (None for the children of the root)
parent == (1 :> None) @@ (2 :> 1) @@ (3 :> 2) @@ (4 :> 2)

\* StructElemBase.children
children == (1 :> <<2>>) @@ (2 :> <<3, 4>>) @@ (3 :> <<>>) @@ (4 :> <<>>)

\* StructElemBase.mcid (None on StructElem)
mcid == (1 :> None) @@ (2 :> None) @@ (3 :> 0) @@ (4 :> 1)

\* the /BBox attributes among StructElemBase.attributes
attr_bboxes == (1 :> <<>>) @@ (2 :> <<BBox(1, 1, 2, 2)>>) @@ (3 :> <<>>) @@ (4 :> <<>>)

\* the content items (pdfminer layout items): a bbox and a text, "notext" where
\* get_text() raises (lines, rectangles, figures, images)
ItemShapes == {[bbox |-> BBox(0, 0, 1, 1), text |-> "a"],
               [bbox |-> BBox(1, 0, 2, 1), text |-> " "],
               [bbox |-> BBox(0, 2, 2, 2), text |-> "notext"]}

\* the items a page of the document draws: a character and a ruling line
ExtractedShapes == {sh \in ItemShapes : sh.text # " "}

Item(id, shape) == [id |-> id, bbox |-> shape.bbox, text |-> shape.text]

\* is_space_text_item of _update_bbox_cache
is_space_text_item(item) == item.text = " "

\* the state of the tree as one value
Tree(pg, cache, content) == [pages |-> pg, cache |-> cache, content |-> content]

NoCache == [valid |-> FALSE, box |-> [p \in Pages |-> NoneBox]]

FreshTree == Tree([n \in Nodes |-> {}],
                  [n \in Nodes |-> NoCache],
                  [n \in Leaves |-> [p \in Pages |-> <<>>]])

RECURSIVE subtree_nodes(_, _)
RECURSIVE subtrees_of(_)
subtrees_of(cs) ==
    IF cs = <<>> THEN <<>>
    ELSE subtree_nodes(Head(cs), TRUE) \o subtrees_of(Tail(cs))

\* StructElemBase.subtree_nodes: the subtree in preorder
subtree_nodes(n, include_self) ==
    (IF include_self THEN <<n>> ELSE <<>>) \o subtrees_of(children[n])

\* the proper ancestors of a node, nearest first
RECURSIVE ancestors(_)
ancestors(n) == IF parent[n] = None THEN <<>> ELSE <<parent[n]>> \o ancestors(parent[n])

\* StructElemBase.get_content(page), not recursive: _get_direct_content
get_content(t, n, p) == IF n \in Leaves THEN t.content[n][p] ELSE <<>>

MapSeq(s, F(_)) == [i \in DOMAIN s |-> F(s[i])]

\* StructElem.write_struct_tree_pdfinfo of a node, as _update_bbox_cache calls
\* it: the exception it ends with.  Each attribute is written with
\* Attribute.struct_tree_str, and format_value_for_struct (attribute.py:38-51)
\* tests every value that is not an Array against the name Decimal, which
\* attribute.py does not import: the numbers of a /BBox array raise NameError.
write_struct_tree_pdfinfo(n) == IF attr_bboxes[n] # <<>> THEN "NameError" ELSE ""

RECURSIVE _update_bbox_cache(_, _)
RECURSIVE update_all(_, _)
\* the get_bbox(page) calls of _update_bbox_cache on the nodes below self, up
\* to the first that raises
update_all(t, ns) ==
    IF ns = <<>> THEN [tree |-> t, raised |-> ""]
    ELSE LET r == _update_bbox_cache(t, Head(ns))
         IN  IF r.raised # "" THEN r ELSE update_all(r.tree, Tail(ns))

\* StructElemBase._update_bbox_cache: the tree after the call and the
\* exception that ended it ("" if none).  The cache is set to {} before
\* anything can raise, and stays so if something does.
_update_bbox_cache(t, n) ==
    IF t.cache[n].valid THEN [tree |-> t, raised |-> ""]
    ELSE LET ps == t.pages[n]
             t0 == [t EXCEPT !.cache[n] =
                       [valid |-> TRUE, box |-> [p \in Pages |-> NoneBox]]]
             below == subtree_nodes(n, FALSE)
         IN  IF attr_bboxes[n] # <<>> /\ Cardinality(ps) # 1
                /\ write_struct_tree_pdfinfo(n) # ""
             THEN [tree |-> t0, raised |-> write_struct_tree_pdfinfo(n)]
             ELSE IF ps = {} THEN [tree |-> t0, raised |-> ""]
             ELSE LET attrs == IF attr_bboxes[n] # <<>> /\ Cardinality(ps) # 1
                               THEN <<>> ELSE attr_bboxes[n]
                      r == update_all(t0, below)
                      t1 == r.tree
                      NotSpace(item) == ~is_space_text_item(item)
                      BoxOf(item) == item.bbox
                      box(p) ==
                          LET content_bboxes ==
                                  MapSeq(SelectSeq(get_content(t1, n, p), NotSpace), BoxOf)
                              Cached(d) == t1.cache[d].box[p]
                              Present(b) == b # NoneBox
                              subtree_bboxes == SelectSeq(MapSeq(below, Cached), Present)
                          IN  Union(content_bboxes \o subtree_bboxes \o attrs)
                  IN  IF r.raised # "" THEN r
                      ELSE [tree |-> [t1 EXCEPT !.cache[n] =
                                         [valid |-> TRUE,
                                          box |-> [p \in Pages |->
                                                      IF p \in ps THEN box(p) ELSE NoneBox]]],
                            raised |-> ""]

\* the tree after _update_bbox_cache
update_bbox_cache(t, n) == _update_bbox_cache(t, n).tree

\* StructElemBase.get_bbox: the value returned
get_bbox(t, n, p) == update_bbox_cache(t, n).cache[n].box[p]

InvalidateNoPropagate(t, n) == [t EXCEPT !.cache[n] = NoCache]

RECURSIVE _invalidate_caches(_, _)
\* StructElemBase._invalidate_caches
_invalidate_caches(t, n) ==
    IF t.cache[n].valid
    THEN LET t1 == [t EXCEPT !.cache[n] = NoCache]
         IN  IF parent[n] # None THEN _invalidate_caches(t1, parent[n]) ELSE t1
    ELSE t

AddPageNoPropagate(t, n, p) == [t EXCEPT !.pages[n] = @ \cup {p}]

RECURSIVE _add_page(_, _, _)
\* StructElemBase._add_page
_add_page(t, n, p) ==
    IF p \notin t.pages[n]
    THEN LET t1 == [t EXCEPT !.pages[n] = @ \cup {p}]
         IN  IF parent[n] # None THEN _add_page(t1, parent[n], p) ELSE t1
    ELSE t

\* the first child whose mcid is m, None if there is none (StructElem._add_content_item)
child_with_mcid(n, m) ==
    LET hits == {i \in DOMAIN children[n] : mcid[children[n][i]] = m}
    IN  IF hits = {} THEN None ELSE children[n][Min(hits)]

\* MCIDStructElem.add_content_item: add_content_item of the base class on a leaf
leaf_add_content_item(t, c, p, item) ==
    LET t1 == _invalidate_caches(_add_page(t, c, p), c)
    IN  [t1 EXCEPT !.content[c][p] = Append(@, item)]

\* StructElemBase.add_content_item on a StructElem: the tree after the call, and
\* whether StructElem._add_content_item raised ValueError
add_content_item(t, n, p, item, m) ==
    LET t1 == _invalidate_caches(_add_page(t, n, p), n)
        c == child_with_mcid(n, m)
    IN  IF c # None
        THEN [tree |-> leaf_add_content_item(t1, c, p, item), raised |-> FALSE]
        ELSE [tree |-> t1, raised |-> TRUE]

TheTree == Tree(pages, bbox_cache, leaf_content)

SetTree(t) ==
    /\ pages' = t.pages
    /\ bbox_cache' = t.cache
    /\ leaf_content' = t.content

Sum(f) ==
    LET RECURSIVE S(_)
        S(D) == IF D = {} THEN 0 ELSE LET x == CHOOSE x \in D : TRUE IN f[x] + S(D \ {x})
    IN  S(DOMAIN f)

\* the number of items attached to the tree
attached_count(content) ==
    Sum([k \in Leaves \X Pages |-> Len(content[k[1]][k[2]])])

(***************************************************************************)
(* The parent index of the document (StructTreeRoot.parent_tree, a         *)
(* NumberTree) and the object-identity map (StructTreeRoot.element_map).   *)
(* An element's objgen is its node number; 9 is the objgen of an object    *)
(* that is no element of the tree; NoObj is a null array entry.            *)
(***************************************************************************)
NoObj == None

parent_tree == (0 :> <<2, 2>>) @@ (1 :> <<1, NoObj>>) @@ (2 :> <<9>>)

\* StructTreeRoot.get_element
get_element(objgen) == IF objgen \in Elements THEN objgen ELSE None

PageStructParents(first, second) == (0 :> first) @@ (1 :> second)

\* a document whose pages declare the keys 0 and 1
DocStructParents == PageStructParents(0, 1)

\* what the two pages may declare as /StructParents: a key of the parent index,
\* nothing (None), or a number that is no key of it (5)
StructParentsChoices ==
    {PageStructParents(0, 0), DocStructParents,
     PageStructParents(2, None), PageStructParents(0, 5)}

\* TaggedPdf.get_struct_elem: the element, or the exception that escapes it
get_struct_elem(psp, page, m) ==
    LET parent_tree_idx == psp[page]
    IN  IF parent_tree_idx = None THEN [raised |-> "", elem |-> None]
        ELSE IF parent_tree_idx \notin DOMAIN parent_tree
        THEN [raised |-> "KeyError", elem |-> None]
        ELSE LET parent_array == parent_tree[parent_tree_idx]
             IN  IF m + 1 \notin DOMAIN parent_array
                 THEN [raised |-> "", elem |-> None]
                 ELSE IF parent_array[m + 1] = NoObj
                 THEN [raised |-> "", elem |-> None]
                 ELSE [raised |-> "", elem |-> get_element(parent_array[m + 1])]

(***************************************************************************)
(* Values of the variables a specification does not use.                   *)
(***************************************************************************)
InitIdle ==
    /\ pc = "idle" /\ exc = ""
    /\ reg_idx = 0
    /\ page_index = None
    /\ current_page = FALSE
    /\ tag_stack = <<>>
    /\ content_by_page = <<>>
    /\ items_by_page_and_mcid = <<>>
    /\ next_bucket = 0
    /\ nonmarked_by_page = None

BoxIdle == boxA = NoneBox /\ boxB = NoneBox /\ boxOp = "" /\ boxOut = NoneBox

BuildIdle == root = <<>> /\ struct_tree_root = <<>> /\ build_pc = "idle"

AttrIdle ==
    /\ elem_A = <<>> /\ elem_C = <<>> /\ class_map = <<>>
    /\ attributes = <<>> /\ attrib_classes = <<>>
    /\ class_idx = 0 /\ attr_pc = "idle" /\ attr_exc = ""

LayoutIdle == layout_items = <<>> /\ columns = <<>> /\ layout_pc = "idle"

AnnotIdle ==
    /\ struct_types = <<>> /\ annotations = <<>> /\ annot_page = None
    /\ annot_pc = "idle"

OverlapIdle == ov_input = <<>> /\ ov_output = <<>> /\ ov_pc = "idle"

ExtendIdle ==
    /\ ext_tables = <<>> /\ ext_nonmarked = <<>> /\ ext_first = <<>>
    /\ ext_second = <<>> /\ ext_pc = "idle"

CaptionIdle ==
    /\ cap_annotations = <<>> /\ cap_output = <<>> /\ cap_log = <<>>
    /\ cap_pc = "idle"

LoopIdle ==
    /\ loop_tables = <<>> /\ loop_candidates = <<>> /\ loop_passes = 0
    /\ loop_pc = "idle"

RaceIdle ==
    /\ race_node = None /\ race_pc = <<>> /\ race_todo = <<>> /\ race_ret = <<>>

LateIdle == LoopIdle /\ RaceIdle

RestIdle == OverlapIdle /\ ExtendIdle /\ CaptionIdle /\ LateIdle

MoreIdle == LayoutIdle /\ AnnotIdle /\ RestIdle

\* the tree and the TaggedPdf.__init__ variables, for the specifications of
\* pure operations
TreeIdle ==
    /\ pages = FreshTree.pages
    /\ bbox_cache = FreshTree.cache
    /\ leaf_content = FreshTree.content
    /\ page_struct_parents = DocStructParents

(***************************************************************************)
(* SpecTree: the methods of the tree nodes that other code calls, called   *)
(* in any order with any arguments: _add_page (taggedpdf.py:67),           *)
(* add_content_item (taggedpdf.py:78) and get_bbox (annotate.py:295).      *)
(***************************************************************************)
TreeInit ==
    /\ pages = FreshTree.pages
    /\ bbox_cache = FreshTree.cache
    /\ leaf_content = FreshTree.content
    /\ page_struct_parents = DocStructParents
    /\ InitIdle /\ BoxIdle /\ BuildIdle /\ AttrIdle /\ MoreIdle

\* struct_elem._add_page(page_idx)
TreeAddPage(n, p) ==
    /\ SetTree(_add_page(TheTree, n, p))
    /\ UNCHANGED <<initVars, pureVars>>

\* struct_elem.add_content_item(page, item, mcid); a ValueError it raises is the
\* caller's to handle, the tree keeps what the call did before raising
TreeAddContentItem(n, p, shape, m) ==
    /\ attached_count(leaf_content) < MaxItems
    /\ LET item == Item(attached_count(leaf_content) + 1, shape)
       IN  SetTree(add_content_item(TheTree, n, p, item, m).tree)
    /\ UNCHANGED <<initVars, pureVars>>

\* node.get_bbox(page): fills the cache of the node (and of the nodes below it)
TreeGetBBox(n) ==
    /\ SetTree(update_bbox_cache(TheTree, n))
    /\ UNCHANGED <<initVars, pureVars>>

TreeNext ==
    \/ \E n \in Elements, p \in Pages : TreeAddPage(n, p)
    \/ \E n \in Elements, p \in Pages, shape \in ItemShapes, m \in 0..MaxMcid :
           TreeAddContentItem(n, p, shape, m)
    \/ \E n \in Nodes : TreeGetBBox(n)

SpecTree == TreeInit /\ [][TreeNext]_vars

\* C26: a call of add_content_item on an element none of whose children is a
\* leaf with the given mcid, which fails with ValueError, leaves the page
\* sets, the bbox caches and the content of the leaves as they were.
C26_FailedAttachChangesNothing ==
    [][\A n \in Elements, p \in Pages, shape \in ItemShapes, m \in 0..MaxMcid :
           child_with_mcid(n, m) = None /\ TreeAddContentItem(n, p, shape, m)
               => UNCHANGED <<pages, bbox_cache, leaf_content>>]_vars

(***************************************************************************)
(* Spec: TaggedPdf.__init__ on a document of two pages (skip_content       *)
(* False): the registration loop over the pages, extract_content (the      *)
(* events the pdfminer interpreter sends to TaggedContentExtractor, page   *)
(* by page), the association loop over the extracted buckets, and the      *)
(* assignment of nonmarked_by_page.  An exception that escapes ends it.    *)
(***************************************************************************)
NoTags == <<>>

\* ContentTag: the page it was opened on and its MCID property (None if it has none)
ContentTag(page, m) == [page |-> page, mcid |-> m]

TagMcids == {None} \cup (0..MaxMcid)

LastPage == Max(Pages)

\* the number of items extracted so far
produced == Sum([p \in Pages |-> Len(content_by_page[p])])

Raise(e) == pc' = "raised" /\ exc' = e

Init ==
    /\ pages = FreshTree.pages
    /\ bbox_cache = FreshTree.cache
    /\ leaf_content = FreshTree.content
    /\ pc = "register" /\ exc = ""
    /\ page_struct_parents \in StructParentsChoices
    /\ reg_idx = 0
    /\ page_index = None
    /\ current_page = FALSE
    /\ tag_stack = NoTags
    /\ content_by_page = [p \in Pages |-> <<>>]
    /\ items_by_page_and_mcid = <<>>
    /\ next_bucket = 1
    /\ nonmarked_by_page = None
    /\ BoxIdle /\ BuildIdle /\ AttrIdle /\ MoreIdle

RECURSIVE register_parents(_, _, _)
\* taggedpdf.py:61-67: _add_page on every element the parent array names
register_parents(t, parent_array, page_idx) ==
    IF parent_array = <<>> THEN t
    ELSE LET par == Head(parent_array)
             struct_elem == IF par = NoObj THEN None ELSE get_element(par)
             t1 == IF struct_elem = None THEN t ELSE _add_page(t, struct_elem, page_idx)
         IN  register_parents(t1, Tail(parent_array), page_idx)

\* taggedpdf.py:55-67, one page of the registration loop
RegisterPage ==
    /\ pc = "register"
    /\ LET parent_tree_idx == page_struct_parents[reg_idx]
       IN  IF parent_tree_idx # None /\ parent_tree_idx \notin DOMAIN parent_tree
           THEN /\ Raise("KeyError")
                /\ UNCHANGED <<treeVars, reg_idx>>
           ELSE /\ IF parent_tree_idx = None
                   THEN UNCHANGED treeVars
                   ELSE SetTree(register_parents(TheTree, parent_tree[parent_tree_idx], reg_idx))
                /\ reg_idx' = reg_idx + 1
                /\ pc' = IF reg_idx = LastPage THEN "extract" ELSE "register"
                /\ exc' = exc
    /\ UNCHANGED <<page_struct_parents, page_index, current_page, tag_stack,
                   content_by_page, items_by_page_and_mcid, next_bucket,
                   nonmarked_by_page, pureVars>>

\* TaggedContentExtractor.begin_page
begin_page ==
    /\ pc = "extract" /\ ~current_page
    /\ page_index' = IF page_index = None THEN 0 ELSE page_index + 1
    /\ current_page' = TRUE
    /\ IF tag_stack # NoTags THEN Raise("AssertionError") ELSE UNCHANGED <<pc, exc>>
    /\ UNCHANGED <<treeVars, page_struct_parents, reg_idx, tag_stack, content_by_page,
                   items_by_page_and_mcid, next_bucket, nonmarked_by_page, pureVars>>

\* TaggedContentExtractor.end_page; after the last page extract_content returns
end_page ==
    /\ pc = "extract" /\ current_page
    /\ current_page' = FALSE
    /\ IF tag_stack # NoTags THEN Raise("AssertionError")
       ELSE /\ pc' = IF page_index = LastPage THEN "associate" ELSE "extract"
            /\ exc' = exc
    /\ UNCHANGED <<treeVars, page_struct_parents, reg_idx, page_index, tag_stack,
                   content_by_page, items_by_page_and_mcid, next_bucket,
                   nonmarked_by_page, pureVars>>

\* the number of tags of a stack that carry a sequence id
mcid_count(tags) == Cardinality({i \in DOMAIN tags : tags[i].mcid # None})

BeginTagUnchecked(tags, page, m) ==
    [stack |-> Append(tags, ContentTag(page, m)), ok |-> TRUE]

\* the body of TaggedContentExtractor.begin_tag: the stack after the push, and
\* whether the assertion on it passed
begin_tag_body(tags, page, m) ==
    LET stack == Append(tags, ContentTag(page, m))
    IN  [stack |-> stack, ok |-> mcid_count(stack) < 2]

\* TaggedContentExtractor.begin_tag
begin_tag(m) ==
    /\ pc = "extract" /\ current_page
    /\ Len(tag_stack) < MaxDepth
    /\ LET r == begin_tag_body(tag_stack, page_index, m)
       IN  /\ tag_stack' = r.stack
           /\ IF r.ok THEN UNCHANGED <<pc, exc>> ELSE Raise("AssertionError")
    /\ UNCHANGED <<treeVars, page_struct_parents, reg_idx, page_index, current_page,
                   content_by_page, items_by_page_and_mcid, next_bucket,
                   nonmarked_by_page, pureVars>>

\* TaggedContentExtractor.end_tag: list.pop() raises IndexError on an empty stack
end_tag ==
    /\ pc = "extract" /\ current_page
    /\ IF tag_stack = NoTags
       THEN Raise("IndexError") /\ UNCHANGED tag_stack
       ELSE tag_stack' = SubSeq(tag_stack, 1, Len(tag_stack) - 1) /\ UNCHANGED <<pc, exc>>
    /\ UNCHANGED <<treeVars, page_struct_parents, reg_idx, page_index, current_page,
                   content_by_page, items_by_page_and_mcid, next_bucket,
                   nonmarked_by_page, pureVars>>

\* the index of the (page, m) bucket, 0 if the key is not there yet
bucket_index(buckets, page, m) ==
    LET hits == {i \in DOMAIN buckets : buckets[i].page = page /\ buckets[i].mcid = m}
    IN  IF hits = {} THEN 0 ELSE Min(hits)

\* the same with the item put in front of the bucket
BucketPrepend(buckets, page, m, item) ==
    LET i == bucket_index(buckets, page, m)
    IN  IF i = 0 THEN Append(buckets, [page |-> page, mcid |-> m, items |-> <<item>>])
        ELSE [buckets EXCEPT ![i].items = <<item>> \o @]

\* items_by_page_and_mcid[page][m].append(item)
bucket_append(buckets, page, m, item) ==
    LET i == bucket_index(buckets, page, m)
    IN  IF i = 0 THEN Append(buckets, [page |-> page, mcid |-> m, items |-> <<item>>])
        ELSE [buckets EXCEPT ![i].items = Append(@, item)]

RECURSIVE file_item(_, _, _, _)
\* TaggedContent.add_item, lines 80-82: file the item under the id of every tag
\* that carries one
file_item(buckets, page, tags, item) ==
    IF tags = <<>> THEN buckets
    ELSE LET tag == Head(tags)
             b1 == IF tag.mcid # None
                   THEN bucket_append(buckets, page, tag.mcid, item) ELSE buckets
         IN  file_item(b1, page, Tail(tags), item)

\* TaggedContentExtractor.add_content_item (called by render_char, paint_path,
\* render_image and begin_figure) and TaggedContent.add_item
extractor_add_content_item(shape) ==
    /\ pc = "extract" /\ current_page
    /\ produced < MaxItems
    /\ LET item == Item(produced + 1, shape)
       IN  /\ items_by_page_and_mcid' =
                  file_item(items_by_page_and_mcid, page_index, tag_stack, item)
           /\ content_by_page' =
                  [content_by_page EXCEPT ![page_index] =
                       Append(@, [tags |-> tag_stack, item |-> item])]
    /\ UNCHANGED <<treeVars, pc, exc, page_struct_parents, reg_idx, page_index,
                   current_page, tag_stack, next_bucket, nonmarked_by_page, pureVars>>

RECURSIVE attach_items(_, _, _, _, _)
\* taggedpdf.py:77-78: add_content_item for the items of a bucket, up to the
\* first that raises
attach_items(t, struct_elem, page, items, m) ==
    IF items = <<>> THEN [tree |-> t, raised |-> FALSE]
    ELSE LET r == add_content_item(t, struct_elem, page, Head(items), m)
         IN  IF r.raised THEN r
             ELSE attach_items(r.tree, struct_elem, page, Tail(items), m)

\* taggedpdf.py:72-78, one (page, mcid) bucket of the association loop
AssociateBucket ==
    /\ pc = "associate"
    /\ IF next_bucket > Len(items_by_page_and_mcid)
       THEN pc' = "store" /\ UNCHANGED <<treeVars, exc, next_bucket>>
       ELSE LET b == items_by_page_and_mcid[next_bucket]
                found == get_struct_elem(page_struct_parents, b.page, b.mcid)
            IN  IF found.raised # ""
                THEN Raise(found.raised) /\ UNCHANGED <<treeVars, next_bucket>>
                ELSE IF found.elem = None
                THEN next_bucket' = next_bucket + 1 /\ UNCHANGED <<treeVars, pc, exc>>
                ELSE LET r == attach_items(TheTree, found.elem, b.page, b.items, b.mcid)
                     IN  /\ SetTree(r.tree)
                         /\ IF r.raised
                            THEN Raise("ValueError") /\ UNCHANGED next_bucket
                            ELSE next_bucket' = next_bucket + 1 /\ UNCHANGED <<pc, exc>>
    /\ UNCHANGED <<page_struct_parents, reg_idx, page_index, current_page, tag_stack,
                   content_by_page, items_by_page_and_mcid, nonmarked_by_page, pureVars>>

\* taggedpdf.py:80: TaggedContent (content.py:74-84) has no attribute
\* nonmarked_items_by_page, reading it raises AttributeError
StoreNonmarked ==
    /\ pc = "store"
    /\ Raise("AttributeError")
    /\ UNCHANGED <<treeVars, page_struct_parents, reg_idx, page_index, current_page,
                   tag_stack, content_by_page, items_by_page_and_mcid, next_bucket,
                   nonmarked_by_page, pureVars>>

Next ==
    \/ RegisterPage
    \/ begin_page
    \/ end_page
    \/ \E m \in TagMcids : begin_tag(m)
    \/ end_tag
    \/ \E shape \in ExtractedShapes : extractor_add_content_item(shape)
    \/ AssociateBucket
    \/ StoreNonmarked

Spec == Init /\ [][Next]_vars

\* the step is a successful add_content_item on element n: a child leaf has id m
AttachedBy(n, p, shape, m) ==
    /\ TreeAddContentItem(n, p, shape, m)
    /\ child_with_mcid(n, m) # None

\* leaf L is the leaf that (page p, sequence id mcid[L]) resolves to
Resolves(p, L) ==
    LET r == get_struct_elem(page_struct_parents, p, mcid[L])
    IN  /\ r.raised = ""
        /\ r.elem = parent[L]
        /\ child_with_mcid(parent[L], mcid[L]) = L

\* C1: a fragment attached through the parent index (page p resolves to the
\* element whose child leaf has the fragment's sequence id) is in that leaf's
\* page-p content, and get_bbox(A, p) of every ancestor A of the leaf is present
\* and includes the fragment's bbox, unless the fragment is whitespace text.
C1_RoundTrip ==
    \A L \in Leaves, p \in Pages :
        Resolves(p, L) =>
            \A i \in DOMAIN leaf_content[L][p] :
                LET item == leaf_content[L][p][i]
                IN  ~is_space_text_item(item) =>
                        \A A \in Range(ancestors(L)) :
                            Covers(get_bbox(TheTree, A, p), item.bbox)

\* C2: after every successful add_content_item the bbox cache of the element,
\* of the leaf the content went to and of every ancestor is invalid.
C2_AttachInvalidates ==
    [][\A n \in Elements, p \in Pages, shape \in ItemShapes, m \in 0..MaxMcid :
           AttachedBy(n, p, shape, m) =>
               \A a \in {n, child_with_mcid(n, m)} \cup Range(ancestors(n)) :
                   ~bbox_cache'[a].valid]_vars

\* C3: a page in the page set of a node is in the page set of every ancestor.
C3_PagesUpwardClosed ==
    \A n \in Nodes, p \in Pages :
        p \in pages[n] => \A a \in Range(ancestors(n)) : p \in pages[a]

\* C3 witness: page 1 registered on element 2, content of page 0 attached to leaf 3
C3_Witness ==
    /\ 0 \in pages[3] /\ 1 \notin pages[3]
    /\ 1 \in pages[2]
    /\ leaf_content[3][0] # <<>>

RECURSIVE ExpectedBBox(_, _)
\* the union of the boxes of the node's own content on the page that is not
\* whitespace text, of the boxes of the nodes below it on the page, and of
\* its declared bbox if the page is the one page of its page set
ExpectedBBox(n, p) ==
    LET NotSpace(item) == ~is_space_text_item(item)
        BoxOf(item) == item.bbox
        OfNode(d) == ExpectedBBox(d, p)
        Present(b) == b # NoneBox
    IN  Union(MapSeq(SelectSeq(get_content(TheTree, n, p), NotSpace), BoxOf)
              \o SelectSeq(MapSeq(subtree_nodes(n, FALSE), OfNode), Present)
              \o (IF pages[n] = {p} THEN attr_bboxes[n] ELSE <<>>))

\* C13: get_bbox of a node never raises, and for every page returns the union
\* of the node's own non-whitespace content boxes on the page, the boxes of
\* its descendants on the page, and the bbox declared as its attribute if its
\* page set is exactly that one page; with zero or several pages in the page
\* set the declared bbox is left out.
C13_DeclaredBBoxOnSinglePage ==
    [][\A n \in Nodes :
           TreeGetBBox(n) =>
               LET r == _update_bbox_cache(TheTree, n)
               IN  /\ r.raised = ""
                   /\ \A p \in Pages : r.tree.cache[n].box[p] = ExpectedBBox(n, p)]_vars


\* the fragment is in the content of some leaf, as often as it occurs there
places_in_tree(item, p) ==
    Sum([L \in Leaves |->
            Cardinality({i \in DOMAIN leaf_content[L][p] : leaf_content[L][p][i].id = item.id})])

\* the fragment is in the page's list of nonmarked_by_page, as often as it occurs
places_in_nonmarked(item, p) ==
    IF nonmarked_by_page = None THEN 0
    ELSE Cardinality({i \in DOMAIN nonmarked_by_page[p] : nonmarked_by_page[p][i].id = item.id})

\* the association loop has gone through every bucket and line 80 has run
AssociationOver == pc = "done" \/ (pc = "raised" /\ exc = "AttributeError")

\* C4: when a resolution step of a fragment's (page, sequence id) fails, the
\* association loop does not raise: it never ends with the KeyError of the
\* parent index or the ValueError of an element that has no leaf with that id.
C4_AssociationNeverRaises ==
    ~(/\ pc = "raised"
      /\ exc \in {"KeyError", "ValueError"}
      /\ next_bucket <= Len(items_by_page_and_mcid))

\* C5: after association every extracted fragment of a page is in exactly one
\* place, the page's content of one leaf or the page's non-marked list.
C5_EveryFragmentPlaced ==
    AssociationOver =>
        \A p \in Pages : \A i \in DOMAIN content_by_page[p] :
            LET item == content_by_page[p][i].item
            IN  places_in_tree(item, p) + places_in_nonmarked(item, p) = 1

\* the ids of the items of bucket i
bucket_ids(i) ==
    {items_by_page_and_mcid[i].items[k].id : k \in DOMAIN items_by_page_and_mcid[i].items}

\* C6: while extraction goes on the tag stack holds at most one tag with a
\* sequence id (the begin_tag that makes it two ends the run), and no item is
\* filed under two sequence ids.
C6_OneLiveMcid ==
    /\ pc # "raised" => mcid_count(tag_stack) <= 1
    /\ \A i, j \in DOMAIN items_by_page_and_mcid :
           i # j => bucket_ids(i) \cap bucket_ids(j) = {}

\* C6 witness: a begin_tag put a second sequence id on the stack and the run
\* ended there, after an item was filed under the first id
C6_Witness ==
    /\ pc = "raised" /\ exc = "AssertionError"
    /\ mcid_count(tag_stack) = 2
    /\ items_by_page_and_mcid # <<>>

Last(s) == s[Len(s)]

\* the items of a list are in the order they were produced in
InProductionOrder(items) ==
    \A i, j \in DOMAIN items : i < j => items[i].id < items[j].id

\* the buckets that hold the item
buckets_of(item) == {b \in DOMAIN items_by_page_and_mcid : item.id \in bucket_ids(b)}

\* the item stored as e under page p is in the bucket (p, id) of the id its
\* tags carry and in no other, and its tags were opened on page p
FiledUnderLiveMcid(p, e) ==
    /\ \A b \in DOMAIN items_by_page_and_mcid :
           b \in buckets_of(e.item) <=>
               /\ items_by_page_and_mcid[b].page = p
               /\ \E k \in DOMAIN e.tags :
                      e.tags[k].mcid = items_by_page_and_mcid[b].mcid
    /\ Cardinality(buckets_of(e.item)) <= 1
    /\ (\E k \in DOMAIN e.tags : e.tags[k].mcid # None)
           => Cardinality(buckets_of(e.item)) = 1
    /\ \A k \in DOMAIN e.tags : e.tags[k].page = p

\* the step is an event that produces an item
Produces == produced' = produced + 1

\* C29: page_index changes only at a begin_page event, by one, from "no page"
\* (so it is the number of begin_page events minus one); a produced item is
\* stored under page_index with the tag stack of that moment and filed under
\* the bucket (page_index, id) of the id live in the stack and under no
\* other; buckets and the per-page content of the leaves keep production
\* order; and a stored entry, its tag list included, never changes.
C29_FiledUnderCurrentPageAndMcid ==
    /\ [](\A p \in Pages : \A i \in DOMAIN content_by_page[p] :
             FiledUnderLiveMcid(p, content_by_page[p][i]))
    /\ [](/\ \A b \in DOMAIN items_by_page_and_mcid :
                InProductionOrder(items_by_page_and_mcid[b].items)
          /\ \A L \in Leaves, p \in Pages : InProductionOrder(leaf_content[L][p]))
    /\ [][/\ page_index' # page_index =>
                 ~current_page /\ current_page' /\ page_index' = page_index + 1
          /\ produced' # produced =>
                 /\ Produces /\ page_index' = page_index /\ page_index # None
                 /\ Len(content_by_page'[page_index]) = Len(content_by_page[page_index]) + 1
                 /\ Last(content_by_page'[page_index]).tags = tag_stack
                 /\ Last(content_by_page'[page_index]).item.id = produced'
          /\ \A p \in Pages : \A i \in DOMAIN content_by_page[p] :
                 /\ i \in DOMAIN content_by_page'[p]
                 /\ content_by_page'[p][i] = content_by_page[p][i]]_vars

\* C29 witness: two items were produced under one tag of the second page,
\* the tag was closed, and both items reached the content of a leaf
C29_Witness ==
    /\ tag_stack = NoTags
    /\ \E b \in DOMAIN items_by_page_and_mcid :
           /\ items_by_page_and_mcid[b].page = 1
           /\ Len(items_by_page_and_mcid[b].items) = 2
    /\ \E L \in Leaves : Len(leaf_content[L][1]) = 2
    /\ \E i \in DOMAIN content_by_page[1] : content_by_page[1][i].tags # NoTags

(***************************************************************************)
(* SpecBBox: the BBox operations applied to two drawn boxes.               *)
(***************************************************************************)
BoxInit ==
    /\ boxA \in Boxes /\ boxB \in Boxes
    /\ boxOp = "" /\ boxOut = NoneBox
    /\ TreeIdle /\ InitIdle /\ BuildIdle /\ AttrIdle /\ MoreIdle

\* boxA.union(boxB)
ApplyUnion ==
    /\ boxOp = ""
    /\ boxOp' = "union"
    /\ boxOut' = union(boxA, boxB)
    /\ UNCHANGED <<boxA, boxB, treeVars, initVars, buildVars, attrVars, moreVars>>

\* boxA.contains(boxB) and boxB.contains(boxA)
ApplyContains ==
    /\ boxOp = ""
    /\ boxOp' = "contains"
    /\ boxOut' = <<contains(boxA, boxB), contains(boxB, boxA)>>
    /\ UNCHANGED <<boxA, boxB, treeVars, initVars, buildVars, attrVars, moreVars>>

\* boxA.jaccard(boxB)
ApplyJaccard ==
    /\ boxOp = ""
    /\ boxOp' = "jaccard"
    /\ boxOut' = jaccard(boxA, boxB)
    /\ UNCHANGED <<boxA, boxB, treeVars, initVars, buildVars, attrVars, moreVars>>

\* boxA.relative_overlap(boxB)
ApplyRelativeOverlap ==
    /\ boxOp = ""
    /\ boxOp' = "relative_overlap"
    /\ boxOut' = relative_overlap(boxA, boxB)
    /\ UNCHANGED <<boxA, boxB, treeVars, initVars, buildVars, attrVars, moreVars>>

BoxNext == ApplyUnion \/ ApplyContains \/ ApplyJaccard \/ ApplyRelativeOverlap

SpecBBox == BoxInit /\ [][BoxNext]_vars

\* C10: the union of two boxes contains both of them, zero-width and
\* zero-height boxes included.
C10_UnionContainsBoth ==
    boxOp = "union" => contains(boxOut, boxA) /\ contains(boxOut, boxB)

\* C11: for boxes with llx <= urx and lly <= ury, each of two boxes contains
\* the other exactly if the two are equal; so every such box contains itself.
C11_MutualContainsIsEquality ==
    boxOp = "contains" => ((boxOut[1] /\ boxOut[2]) <=> boxA = boxB)

\* C12: jaccard and relative_overlap of two boxes with llx <= urx and
\* lly <= ury never raise, and are 0 for two boxes that do not overlap.
C12_OverlapMeasuresTotal ==
    boxOp \in {"jaccard", "relative_overlap"} =>
        /\ boxOut.exc = ""
        /\ intersection(boxA, boxB) = NoneBox => boxOut.num = 0

(***************************************************************************)
(* Structure tree construction (structtree.py:19-57, 222-326).             *)
(*                                                                         *)
(* A pikepdf object that can stand as a kid is a record of one shape:      *)
(* kind is "dict" for a Dictionary, "int" for an integer, "other" for any  *)
(* other object (a Name, a String, an Array).  A Dictionary has its /Type, *)
(* /S, /P, /K, /MCID and /Obj entries, Absent for a key it does not have.  *)
(* /K is the sequence of kids (a single kid is the sequence of one).       *)
(* Every Dictionary is an indirect object of its own: its objgen is        *)
(* modelled by its position (path of indices) in the /K arrays.            *)
(***************************************************************************)
Absent == "absent"
NotName == "notname"        \* a value that is not a Name

MaxKids == 2                \* longest /K array

Dictionary(Type, S, P, K, MCID, Obj) ==
    [kind |-> "dict", Type |-> Type, S |-> S, P |-> P, K |-> K, MCID |-> MCID,
     Obj |-> Obj]
IntKid(m) ==
    [kind |-> "int", Type |-> Absent, S |-> Absent, P |-> Absent, K |-> <<>>,
     MCID |-> m, Obj |-> Absent]
OtherKid ==
    [kind |-> "other", Type |-> Absent, S |-> Absent, P |-> Absent, K |-> <<>>,
     MCID |-> None, Obj |-> Absent]
ElemDict(Type, S, P, K) == Dictionary(Type, S, P, K, None, Absent)

\* structtype.py:91-98 (two of the standard names) and names outside it
StandardNames == {"P", "H1"}
CustomNames == {"Custom", "Odd"}
is_standard_type(type_) == type_ \in StandardNames

\* RoleMap.__init__: entries whose value is not a Name are left out
RoleMap(dictionary) ==
    [k \in {key \in DOMAIN dictionary : dictionary[key] # NotName} |-> dictionary[k]]

\* RoleMap.get(key), default None
role_map_get(mapping, key) == IF key \in DOMAIN mapping THEN mapping[key] ELSE Absent

\* the alias lookup without the replacement of non-standard names
ResolveNoFallback(role_map, S) ==
    IF role_map.present /\ role_map_get(role_map.mapping, S) # Absent
    THEN role_map_get(role_map.mapping, S)
    ELSE S

\* structtree.py:274-284; role_map is [present, mapping]
resolve_struct_type(role_map, S) ==
    LET mapped == IF role_map.present /\ role_map_get(role_map.mapping, S) # Absent
                  THEN role_map_get(role_map.mapping, S)
                  ELSE S
    IN  IF is_standard_type(mapped) THEN mapped ELSE "Unknown"

\* A built node.  kid_path is where its record stands in the /K arrays.
Node(cls, kid_path, struct_type, original_struct_type, m, kids) ==
    [cls |-> cls, kid_path |-> kid_path, struct_type |-> struct_type,
     original_struct_type |-> original_struct_type, mcid |-> m, children |-> kids]
NoNode == Node("none", <<>>, "", "", None, <<>>)

\* the outcome of a constructor: the exception it raised ("" if none), the
\* node, and what it added to StructTreeRoot.element_map
Built(node, element_map) == [exc |-> "", node |-> node, element_map |-> element_map]
Raised(e, element_map) == [exc |-> e, node |-> NoNode, element_map |-> element_map]

\* MCIDStructElem.__init__
MCIDStructElem(m, kid_path) ==
    Built(Node("MCIDStructElem", kid_path, "MCID", "", m, <<>>), {})

\* MCIDStructElem.from_dictionary
MCID_from_dictionary(dictionary, kid_path) ==
    IF dictionary.MCID = None
    THEN Raised("ValueError", {})
    ELSE Built(Node("MCIDStructElem", kid_path, "MCR", "", dictionary.MCID, <<>>), {})

\* ObjRefStructElem.__init__
ObjRefStructElem(dictionary, kid_path) ==
    IF dictionary.Obj # "dict"
    THEN Raised("ValueError", {})
    ELSE Built(Node("ObjRefStructElem", kid_path, "OBJR", "", None, <<>>), {})

RECURSIVE StructElem(_, _, _)
RECURSIVE parse_child(_, _, _)
RECURSIVE add_children(_, _, _, _, _)

\* StructElemBase.add_child: a ValueError of parse_child drops the kid, any
\* other exception goes on to the caller.  acc is [exc, children, element_map].
add_child(acc, element, role_map, kid_path) ==
    LET r == parse_child(element, role_map, kid_path)
        em == acc.element_map \cup r.element_map
    IN  IF r.exc = ""
        THEN [exc |-> "", children |-> Append(acc.children, r.node), element_map |-> em]
        ELSE IF r.exc = "ValueError"
        THEN [acc EXCEPT !.element_map = em]
        ELSE [acc EXCEPT !.exc = r.exc, !.element_map = em]

\* structtree.py:300-304, the loop over the kids from the i-th on
add_children(kids, i, role_map, objgen, acc) ==
    IF i > Len(kids) \/ acc.exc # "" THEN acc
    ELSE add_children(kids, i + 1, role_map, objgen,
                      add_child(acc, kids[i], role_map, Append(objgen, i)))

\* StructElemBase.parse_child
parse_child(element, role_map, kid_path) ==
    IF element.kind = "dict"
    THEN IF element.Type = Absent \/ element.Type = "StructElem"
         THEN StructElem(element, role_map, kid_path)
         ELSE IF element.Type = "MCR"
         THEN MCID_from_dictionary(element, kid_path)
         ELSE IF element.Type = "OBJR"
         THEN ObjRefStructElem(element, kid_path)
         ELSE Raised("ValueError", {})
    ELSE IF element.kind = "int"
    THEN MCIDStructElem(element.MCID, kid_path)
    ELSE Raised("NotImplementedError", {})

\* StructElem.__init__ of a dictionary without /A and /C
StructElem(dictionary, role_map, objgen) ==
    IF dictionary.Type # Absent /\ dictionary.Type # "StructElem"
    THEN Raised("ValueError", {objgen})
    ELSE IF dictionary.S = Absent \/ dictionary.S = NotName
    THEN Raised("ValueError", {objgen})
    ELSE IF dictionary.P = Absent
    THEN Raised("ValueError", {objgen})
    ELSE IF dictionary.P # "indirect"
    THEN Raised("ValueError", {objgen})
    ELSE LET kids == add_children(dictionary.K, 1, role_map, objgen,
                         [exc |-> "", children |-> <<>>, element_map |-> {objgen}])
         IN  IF kids.exc # ""
             THEN Raised(kids.exc, kids.element_map)
             ELSE Built(Node("StructElem", objgen,
                             resolve_struct_type(role_map, dictionary.S),
                             dictionary.S, None, kids.children),
                        kids.element_map)

RECURSIVE root_children(_, _, _, _)
\* structtree.py:50-55, the loop over the root's kids from the i-th on
root_children(kids, i, role_map, acc) ==
    IF i > Len(kids) \/ acc.exc # "" THEN acc
    ELSE IF kids[i].kind # "dict"
    THEN [acc EXCEPT !.exc = "ValueError"]
    ELSE LET r == StructElem(kids[i], role_map, <<i>>)
             em == acc.element_map \cup r.element_map
         IN  root_children(kids, i + 1, role_map,
                 IF r.exc = ""
                 THEN [exc |-> "", children |-> Append(acc.children, r.node),
                       element_map |-> em]
                 ELSE [acc EXCEPT !.exc = r.exc, !.element_map = em])

\* StructTreeRoot.__init__; r is [K_kind, K, RoleMap], RoleMap [present, dictionary]
StructTreeRoot(r) ==
    LET role_map == IF r.RoleMap.present
                    THEN [present |-> TRUE, mapping |-> RoleMap(r.RoleMap.dictionary)]
                    ELSE [present |-> FALSE, mapping |-> <<>>]
        empty == [exc |-> "", children |-> <<>>, element_map |-> {}]
        made == IF r.K_kind = "dict" \/ r.K_kind = "array"
                THEN root_children(r.K, 1, role_map, empty)
                ELSE IF r.K_kind = "none" THEN empty
                ELSE [empty EXCEPT !.exc = "ValueError"]
    IN  [exc |-> made.exc, children |-> made.children,
         element_map |-> made.element_map, role_map |-> role_map]

(***************************************************************************)
(* SpecBuild: StructTreeRoot(root) applied to a drawn /StructTreeRoot.     *)
(***************************************************************************)
SeqsUpTo(S, n) == UNION {[1..k -> S] : k \in 0..n}

\* kids of the elements of the third level
GrandKids ==
    {IntKid(1), OtherKid,
     ElemDict(Absent, "Odd", "indirect", <<>>),
     ElemDict("StructElem", "P", Absent, <<>>)}

\* kids without kids of their own
LeafKids ==
    {IntKid(0), OtherKid,
     Dictionary("MCR", Absent, Absent, <<>>, 0, Absent),
     Dictionary("MCR", Absent, Absent, <<>>, None, Absent),
     Dictionary("OBJR", Absent, Absent, <<>>, None, "dict"),
     Dictionary("OBJR", Absent, Absent, <<>>, None, Absent),
     Dictionary("Bogus", "P", "indirect", <<>>, None, Absent),
     ElemDict(Absent, "P", "indirect", <<>>),
     ElemDict("StructElem", "Custom", "indirect", <<>>),
     ElemDict(Absent, Absent, "indirect", <<>>),
     ElemDict(Absent, NotName, "indirect", <<>>),
     ElemDict("StructElem", "P", Absent, <<>>),
     ElemDict(Absent, "P", "direct", <<>>)}

MidKids == {ElemDict(Absent, "H1", "indirect", k) : k \in SeqsUpTo(GrandKids, MaxKids)}

TopElems ==
    {ElemDict("StructElem", "Custom", "indirect", k) :
         k \in SeqsUpTo(LeafKids \cup MidKids, MaxKids)}

RootSiblings ==
    {OtherKid,
     ElemDict(Absent, "P", "indirect", <<>>),
     ElemDict(Absent, Absent, "indirect", <<>>),
     Dictionary("MCR", Absent, Absent, <<>>, 0, Absent)}

RootKidArrays ==
    {<<>>} \cup {<<t>> : t \in TopElems}
           \cup {<<t, s>> : t \in TopElems, s \in RootSiblings}
           \cup {<<s, t>> : t \in TopElems, s \in RootSiblings}

NoRoleMap == [present |-> FALSE, dictionary |-> <<>>]
RoleMapChoices ==
    {NoRoleMap,
     [present |-> TRUE, dictionary |-> ("Custom" :> "P") @@ ("Odd" :> NotName)],
     [present |-> TRUE,
      dictionary |-> ("Custom" :> "Odd") @@ ("P" :> "H1") @@ ("H1" :> "Custom")]}

Roots ==
    [K_kind : {"array"}, K : RootKidArrays, RoleMap : RoleMapChoices]
    \cup [K_kind : {"dict"}, K : {<<t>> : t \in TopElems}, RoleMap : RoleMapChoices]
    \cup [K_kind : {"none", "other"}, K : {<<>>}, RoleMap : RoleMapChoices]

BuildInit ==
    /\ root \in Roots
    /\ struct_tree_root = <<>>
    /\ build_pc = "start"
    /\ TreeIdle /\ InitIdle /\ BoxIdle /\ AttrIdle /\ MoreIdle

\* taggedpdf.py:40, StructTreeRoot(self.struct_tree_root)
BuildTree ==
    /\ build_pc = "start"
    /\ struct_tree_root' = StructTreeRoot(root)
    /\ build_pc' = "built"
    /\ UNCHANGED <<root, treeVars, initVars, boxVars, attrVars, moreVars>>

BuildNext == BuildTree

SpecBuild == BuildInit /\ [][BuildNext]_vars

RECURSIVE KidAt(_, _)
\* the record at a path of indices below a /K sequence
KidAt(kids, path) ==
    IF Len(path) = 1 THEN kids[path[1]] ELSE KidAt(kids[path[1]].K, Tail(path))

RECURSIVE nodes_of(_)
\* the nodes of a list of subtrees
nodes_of(ch) == UNION {{ch[j]} \cup nodes_of(ch[j].children) : j \in DOMAIN ch}

\* a child record that cannot become a node: of the wrong kind, of a wrong
\* declared kind, without a required entry, with an invalid parent reference
Malformed(kid, at_root) ==
    \/ kid.kind = "other"
    \/ at_root /\ kid.kind # "dict"
    \/ /\ kid.kind = "dict"
       /\ \/ kid.Type \notin {Absent, "StructElem", "MCR", "OBJR"}
          \/ at_root /\ kid.Type \notin {Absent, "StructElem"}
          \/ kid.Type \in {Absent, "StructElem"} /\ kid.S \in {Absent, NotName}
          \/ kid.Type \in {Absent, "StructElem"} /\ kid.P # "indirect"
          \/ kid.Type = "MCR" /\ kid.MCID = None
          \/ kid.Type = "OBJR" /\ kid.Obj # "dict"

\* the children are the well-formed kids, in the kids' order
KeepsWellFormed(ch, kids, at_root) ==
    LET idx == [j \in DOMAIN ch |-> Last(ch[j].kid_path)]
    IN  /\ \A j \in DOMAIN idx : j > 1 => idx[j - 1] < idx[j]
        /\ {idx[j] : j \in DOMAIN idx} = {i \in DOMAIN kids : ~Malformed(kids[i], at_root)}

RECURSIVE AllKeepWellFormed(_, _, _)
AllKeepWellFormed(ch, kids, at_root) ==
    /\ KeepsWellFormed(ch, kids, at_root)
    /\ \A j \in DOMAIN ch :
           ch[j].cls = "StructElem" =>
               AllKeepWellFormed(ch[j].children, kids[Last(ch[j].kid_path)].K, FALSE)

\* C7: whatever malformed child records the elements and the root have, at
\* any depth, the construction succeeds, and the children of every element
\* (and of the root) are exactly its well-formed child records, in order.
C7_MalformedChildDropped ==
    build_pc = "built" /\ root.K_kind # "other" =>
        /\ struct_tree_root.exc = ""
        /\ AllKeepWellFormed(struct_tree_root.children, root.K, TRUE)

\* the alias map of the document, as the claim reads it
AliasOf(t) ==
    IF root.RoleMap.present /\ t \in DOMAIN root.RoleMap.dictionary
                            /\ root.RoleMap.dictionary[t] # NotName
    THEN root.RoleMap.dictionary[t]
    ELSE t

\* C8: every built element node with declared type t has struct_type M(t) if
\* the alias map maps t and t otherwise, replaced by Unknown if that name is
\* not standard; so its struct_type is standard or Unknown; and its
\* original_struct_type is t.
C8_TypeResolution ==
    build_pc = "built" /\ struct_tree_root.exc = "" =>
        \A n \in nodes_of(struct_tree_root.children) :
            n.cls = "StructElem" =>
                LET t == KidAt(root.K, n.kid_path).S
                IN  /\ n.struct_type =
                           (IF AliasOf(t) \in StandardNames THEN AliasOf(t) ELSE "Unknown")
                    /\ n.struct_type \in StandardNames \cup {"Unknown"}
                    /\ n.original_struct_type = t

\* a built tree with an aliased element, an element of a non-standard type
\* and an element of a standard type below the first level
C8_Witness ==
    /\ build_pc = "built" /\ struct_tree_root.exc = ""
    /\ \E n \in nodes_of(struct_tree_root.children) :
           /\ n.cls = "StructElem" /\ n.original_struct_type = "Custom"
           /\ n.struct_type = "P"
    /\ \E n \in nodes_of(struct_tree_root.children) :
           /\ n.cls = "StructElem" /\ n.original_struct_type = "Odd"
           /\ n.struct_type = "Unknown" /\ Len(n.kid_path) = 3

\* C25: after a successful build every element that get_element resolves
\* is a node reachable from the root's children through children lists, so
\* a child dropped as malformed is not resolvable.
C25_ResolvableIsReachable ==
    build_pc = "built" /\ struct_tree_root.exc = "" =>
        \A objgen \in struct_tree_root.element_map :
            \E n \in nodes_of(struct_tree_root.children) :
                n.cls = "StructElem" /\ n.kid_path = objgen

(***************************************************************************)
(* Attributes and attribute classes (parsing.py:60-129,                    *)
(* structtree.py:306-316, 552-571).                                        *)
(*                                                                         *)
(* An object that can stand as /A, or as an item of an /A array, is a      *)
(* record [kind, O, items]: kind "dict" for an attribute dictionary with   *)
(* owner O (Absent if it has none) and its other entries in key order,     *)
(* kind "int" for a revision number, "other" for anything else.            *)
(***************************************************************************)
MaxAttrItems == 2           \* longest /A array
MaxClasses == 2             \* longest /C array

Attribute(name, value, owner) == [name |-> name, value |-> value, owner |-> owner]
Entry(key, value) == [key |-> key, value |-> value]
AttrDict(O, items) == [kind |-> "dict", O |-> O, items |-> items]
IntItem == [kind |-> "int", O |-> Absent, items |-> <<>>]
OtherItem == [kind |-> "other", O |-> Absent, items |-> <<>>]

Ok(val) == [exc |-> "", val |-> val]
Fails(e) == [exc |-> e, val |-> <<>>]

\* parsing.parse_attributes_from_dict (user properties apart)
parse_attributes_from_dict(dictionary) ==
    IF dictionary.O = Absent
    THEN Fails("ValueError")
    ELSE Ok([i \in DOMAIN dictionary.items |->
                 Attribute(dictionary.items[i].key, dictionary.items[i].value,
                           dictionary.O)])

RECURSIVE parse_attributes_from_array(_, _, _)
\* parsing.parse_attributes_from_array, from the i-th item on
parse_attributes_from_array(array, i, attrs) ==
    IF i > Len(array) THEN Ok(attrs)
    ELSE IF array[i].kind = "dict"
    THEN LET r == parse_attributes_from_dict(array[i])
         IN  IF r.exc # "" THEN r
             ELSE parse_attributes_from_array(array, i + 1, attrs \o r.val)
    ELSE IF array[i].kind = "int"
    THEN parse_attributes_from_array(array, i + 1, attrs)
    ELSE Fails("ValueError")

\* parsing.parse_attributes; element is [kind, val]: "none", "dict" (val the
\* one dictionary), "array" (val the items) or "other"
parse_attributes(element) ==
    IF element.kind = "none" THEN Ok(<<>>)
    ELSE IF element.kind = "dict" THEN parse_attributes_from_dict(element.val[1])
    ELSE IF element.kind = "array" THEN parse_attributes_from_array(element.val, 1, <<>>)
    ELSE Fails("NotImplementedError")

\* parsing.parse_attrib_class; element is [kind, val]: "none", "name" (val the
\* one name), "array" (val the items, NotName for an item that is no Name)
\* or "other"
parse_attrib_class(element) ==
    IF element.kind = "none" THEN Ok(<<>>)
    ELSE IF element.kind = "name" THEN Ok(element.val)
    ELSE IF element.kind = "array"
    THEN IF \E i \in DOMAIN element.val : element.val[i] = NotName
         THEN Fails("ValueError")
         ELSE Ok(element.val)
    ELSE Fails("ValueError")

RECURSIVE AppendAll(_, _)
\* the loop of apply_mapping with the test for a same-named attribute left out
AppendAll(attrs, class_attrs) ==
    IF class_attrs = <<>> THEN attrs
    ELSE AppendAll(Append(attrs, Head(class_attrs)), Tail(class_attrs))

\* apply_mapping appending every attribute of the class
ApplyMappingAlways(mapping, attrs, attrib_class) ==
    IF attrib_class \notin DOMAIN mapping
    THEN Fails("ValueError")
    ELSE Ok(AppendAll(attrs, mapping[attrib_class]))

RECURSIVE append_absent(_, _)
\* structtree.py:566-570
append_absent(attrs, class_attrs) ==
    IF class_attrs = <<>> THEN attrs
    ELSE LET attribute == Head(class_attrs)
         IN  IF \E i \in DOMAIN attrs : attrs[i].name = attribute.name
             THEN append_absent(attrs, Tail(class_attrs))
             ELSE append_absent(Append(attrs, attribute), Tail(class_attrs))

\* ClassMap.apply_mapping
apply_mapping(mapping, attrs, attrib_class) ==
    IF attrib_class \notin DOMAIN mapping
    THEN Fails("ValueError")
    ELSE Ok(append_absent(attrs, mapping[attrib_class]))

\* the /ClassMap dictionary of the document
ClassMapDictionary ==
    ("c1" :> [kind |-> "dict",
              val |-> <<AttrDict("Layout", <<Entry("a", 9), Entry("b", 9)>>)>>])
    @@ ("c2" :> [kind |-> "array",
                 val |-> <<AttrDict("Layout", <<Entry("b", 8)>>),
                           AttrDict("Table", <<Entry("b", 7), Entry("c", 8)>>)>>])

\* ClassMap.__init__
ClassMap(dictionary) == [key \in DOMAIN dictionary |-> parse_attributes(dictionary[key]).val]

NoClassMap == [present |-> FALSE, mapping |-> <<>>]
TheClassMap == [present |-> TRUE, mapping |-> ClassMap(ClassMapDictionary)]

(***************************************************************************)
(* SpecAttr: the attribute part of StructElem.__init__                     *)
(* (structtree.py:306-316) for a drawn /A, /C and class map.               *)
(***************************************************************************)
AttrItems ==
    {AttrDict("Layout", <<Entry("a", 1)>>),
     AttrDict("Layout", <<Entry("b", 1)>>),
     AttrDict("Table", <<Entry("a", 2), Entry("b", 2)>>),
     AttrDict("Layout", <<Entry("b", 2), Entry("d", 1)>>),
     AttrDict(Absent, <<Entry("a", 1)>>),
     IntItem, OtherItem}

AChoices ==
    {[kind |-> "none", val |-> <<>>], [kind |-> "other", val |-> <<>>]}
    \cup {[kind |-> "dict", val |-> <<d>>] : d \in {x \in AttrItems : x.kind = "dict"}}
    \cup {[kind |-> "array", val |-> a] : a \in SeqsUpTo(AttrItems, MaxAttrItems)}

ClassNames == {"c1", "c2", "missing"}

CChoices ==
    {[kind |-> "none", val |-> <<>>], [kind |-> "other", val |-> <<>>]}
    \cup {[kind |-> "name", val |-> <<c>>] : c \in ClassNames}
    \cup {[kind |-> "array", val |-> a] :
              a \in SeqsUpTo(ClassNames \cup {NotName}, MaxClasses)}

AttrInit ==
    /\ elem_A \in AChoices
    /\ elem_C \in CChoices
    /\ class_map \in {NoClassMap, TheClassMap}
    /\ attributes = <<>>
    /\ attrib_classes = <<>>
    /\ class_idx = 1
    /\ attr_pc = "parse" /\ attr_exc = ""
    /\ TreeIdle /\ InitIdle /\ BoxIdle /\ BuildIdle /\ MoreIdle

AttrRaise(e) == attr_pc' = "raised" /\ attr_exc' = e

\* structtree.py:306-311
ParseAttributes ==
    /\ attr_pc = "parse"
    /\ LET a == parse_attributes(elem_A)
           c == parse_attrib_class(elem_C)
       IN  IF a.exc # ""
           THEN AttrRaise(a.exc) /\ UNCHANGED <<attributes, attrib_classes>>
           ELSE IF c.exc # ""
           THEN AttrRaise(c.exc) /\ attributes' = a.val /\ UNCHANGED attrib_classes
           ELSE /\ attributes' = a.val
                /\ attrib_classes' = c.val
                /\ attr_pc' = IF c.val = <<>> THEN "done" ELSE "apply"
                /\ attr_exc' = attr_exc
    /\ UNCHANGED <<elem_A, elem_C, class_map, class_idx, treeVars, initVars, boxVars,
                   buildVars, moreVars>>

\* structtree.py:314-316, one class of the loop
ApplyClass ==
    /\ attr_pc = "apply"
    /\ IF ~class_map.present
       THEN AttrRaise("AttributeError") /\ UNCHANGED <<attributes, class_idx>>
       ELSE LET r == apply_mapping(class_map.mapping, attributes, attrib_classes[class_idx])
            IN  IF r.exc # ""
                THEN AttrRaise(r.exc) /\ UNCHANGED <<attributes, class_idx>>
                ELSE /\ attributes' = r.val
                     /\ class_idx' = class_idx + 1
                     /\ attr_pc' = IF class_idx = Len(attrib_classes) THEN "done" ELSE "apply"
                     /\ attr_exc' = attr_exc
    /\ UNCHANGED <<elem_A, elem_C, class_map, attrib_classes, treeVars, initVars,
                   boxVars, buildVars, moreVars>>

AttrNext == ParseAttributes \/ ApplyClass

SpecAttr == AttrInit /\ [][AttrNext]_vars

\* the attributes the element declares itself
Explicit == parse_attributes(elem_A).val

RECURSIVE Flat(_)
\* the attributes of the classes of a list, in the order of the list
Flat(classes) ==
    IF classes = <<>> THEN <<>>
    ELSE class_map.mapping[Head(classes)] \o Flat(Tail(classes))

NamesOf(attrs) == {attrs[i].name : i \in DOMAIN attrs}

\* C9: when the attribute resolution of a node is over, its attributes start
\* with the declared ones, unchanged and in order; no attribute after them
\* has the name of an attribute before it; the attributes after them are
\* attributes of the classes, in the order of application; and each class
\* attribute whose name no earlier attribute (declared, or of the classes
\* before it in that order) has, is among them.
C9_ClassAttributesInjected ==
    attr_pc = "done" =>
        LET n == Len(Explicit)
            flat == Flat(attrib_classes)
            added == SubSeq(attributes, n + 1, Len(attributes))
        IN  /\ Len(attributes) >= n
            /\ SubSeq(attributes, 1, n) = Explicit
            /\ \A i \in DOMAIN attributes : \A j \in DOMAIN attributes :
                   j < i /\ i > n => attributes[j].name # attributes[i].name
            /\ \A k \in DOMAIN flat :
                   (flat[k].name \notin NamesOf(Explicit)
                    /\ \A h \in DOMAIN flat : h < k => flat[h].name # flat[k].name)
                   => \E i \in DOMAIN added : added[i] = flat[k]
            /\ \A i \in DOMAIN added : \E k \in DOMAIN flat : added[i] = flat[k]
            /\ \A i \in DOMAIN added : \A j \in DOMAIN added :
                   i < j => \E k \in DOMAIN flat : \E h \in DOMAIN flat :
                                k < h /\ flat[k] = added[i] /\ flat[h] = added[j]

\* two classes applied to a node that declares attributes: one class
\* attribute is added, one is withheld by a declared attribute, one by an
\* attribute of the class before
C9_Witness ==
    /\ attr_pc = "done"
    /\ Len(Explicit) > 0
    /\ attrib_classes = <<"c1", "c2">>
    /\ \E k \in DOMAIN Flat(attrib_classes) :
           Flat(attrib_classes)[k].name \in NamesOf(Explicit)
    /\ Len(attributes) > Len(Explicit) + 1
    /\ \E i \in DOMAIN attributes : attributes[i] = Attribute("b", 9, "Layout")

(***************************************************************************)
(* taggedpdf/layout.py: lines and columns of the characters of an item     *)
(* list.  An item is Item(id, shape); it is an LTChar unless its text is   *)
(* "notext".  A span is a pair <<low, high>>.                              *)
(***************************************************************************)
MaxLayoutItems == 3         \* longest item list passed to split_into_columns

\* isinstance(i, LTChar)
is_LTChar(item) == item.text # "notext"

\* layout.relative_overlaps: the two ratios as pairs <<overlap, length>>
relative_overlaps(span1, span2) ==
    LET length1 == span1[2] - span1[1]
        length2 == span2[2] - span2[1]
        ovl_length == Min({span1[2], span2[2]}) - Max({span1[1], span2[1]})
    IN  IF ~(length1 > 0 /\ length2 > 0)
        THEN [exc |-> "AssertionError", r1 |-> <<0, 1>>, r2 |-> <<0, 1>>]
        ELSE IF ovl_length < 0
        THEN [exc |-> "", r1 |-> <<0, 1>>, r2 |-> <<0, 1>>]
        ELSE [exc |-> "", r1 |-> <<ovl_length, length1>>, r2 |-> <<ovl_length, length2>>]

\* same_line / same_column: max(relative_overlaps(s1, s2)) >= 0.5
same_span(s1, s2) ==
    LET r == relative_overlaps(s1, s2)
    IN  [exc |-> r.exc,
         val |-> r.exc = "" /\ (2 * r.r1[1] >= r.r1[2] \/ 2 * r.r2[1] >= r.r2[2])]

\* the loop of group_into_lines (spans vertical) and the loop of
\* split_into_columns (spans horizontal): element i joins the last group if
\* its span is the same as the group's by same_span, else opens a group;
\* spans[i] is the span of element i
RECURSIVE group_by_span(_, _, _, _, _)
group_by_span(elems, spans, i, groups, group_span) ==
    IF i > Len(elems) THEN Ok(groups)
    ELSE LET span == spans[i]
             same == IF groups # <<>> THEN same_span(group_span, span)
                     ELSE [exc |-> "", val |-> FALSE]
         IN  IF same.exc # "" THEN Fails(same.exc)
             ELSE IF same.val
             THEN group_by_span(elems, spans, i + 1,
                                [groups EXCEPT ![Len(groups)] = Append(@, elems[i])],
                                <<Min({group_span[1], span[1]}),
                                  Max({group_span[2], span[2]})>>)
             ELSE group_by_span(elems, spans, i + 1, Append(groups, <<elems[i]>>), span)

\* layout.group_into_lines
group_into_lines(chars) ==
    LET char_vspan(char) == <<char.bbox[2], char.bbox[4]>>
    IN  group_by_span(chars, [i \in DOMAIN chars |-> char_vspan(chars[i])], 1,
                      <<>>, <<0, 0>>)

\* layout.py:93-103, the columns as lists of lines
group_into_columns(textlines) ==
    LET line_hspan(textline) == <<textline[1].bbox[1], textline[Len(textline)].bbox[3]>>
    IN  group_by_span(textlines,
                      [i \in DOMAIN textlines |-> line_hspan(textlines[i])], 1,
                      <<>>, <<0, 0>>)

\* a column reduced to the characters of its first line
FlattenFirstLine(ss) == IF ss = <<>> THEN <<>> ELSE Head(ss)

RECURSIVE Flatten(_)
\* _hierarchy_subset of a column: its characters in order
Flatten(ss) == IF ss = <<>> THEN <<>> ELSE Head(ss) \o Flatten(Tail(ss))

\* split_into_columns returning the grouped columns whatever their number
SplitNoFallback(items) ==
    LET lines == group_into_lines(SelectSeq(items, is_LTChar))
        cols == group_into_columns(lines.val)
    IN  IF lines.exc # "" THEN Fails(lines.exc)
        ELSE IF cols.exc # "" THEN Fails(cols.exc)
        ELSE Ok([c \in DOMAIN cols.val |-> Flatten(cols.val[c])])

\* layout.split_into_columns (its bbox argument is not used)
split_into_columns(items) ==
    LET lines == group_into_lines(SelectSeq(items, is_LTChar))
        cols == group_into_columns(lines.val)
    IN  IF lines.exc # "" THEN Fails(lines.exc)
        ELSE IF cols.exc # "" THEN Fails(cols.exc)
        ELSE IF Len(cols.val) < 2 THEN Ok(<<items>>)
        ELSE Ok([c \in DOMAIN cols.val |-> Flatten(cols.val[c])])

(***************************************************************************)
(* SpecLayout: split_into_columns applied to a drawn item list.            *)
(***************************************************************************)
\* characters of a left and a right column and across both, on three rows;
\* a character of no height; a rectangle
LayoutShapes ==
    {[bbox |-> BBox(x[1], y, x[2], y + 1), text |-> "a"] :
         x \in {<<0, 1>>, <<1, 2>>, <<0, 2>>}, y \in 0..2}
    \cup {[bbox |-> BBox(0, 0, 1, 0), text |-> "a"],
          [bbox |-> BBox(0, 0, 2, 3), text |-> "notext"]}

LayoutInputs ==
    {[i \in DOMAIN s |-> Item(i, s[i])] : s \in SeqsUpTo(LayoutShapes, MaxLayoutItems)}

LayoutInit ==
    /\ layout_items \in LayoutInputs
    /\ columns = <<>>
    /\ layout_pc = "start"
    /\ TreeIdle /\ InitIdle /\ BoxIdle /\ BuildIdle /\ AttrIdle /\ AnnotIdle
    /\ RestIdle

\* split_into_columns(layout_items, bbox)
SplitIntoColumns ==
    /\ layout_pc = "start"
    /\ columns' = split_into_columns(layout_items)
    /\ layout_pc' = "split"
    /\ UNCHANGED <<layout_items, treeVars, initVars, boxVars, buildVars, attrVars,
                   annotVars, restVars>>

LayoutNext == SplitIntoColumns

SpecLayout == LayoutInit /\ [][LayoutNext]_vars

\* the text lines of the input
TextLines == group_into_lines(SelectSeq(layout_items, is_LTChar))

\* the horizontal extent of a line
Extent(line) ==
    <<Min({line[i].bbox[1] : i \in DOMAIN line}), Max({line[i].bbox[3] : i \in DOMAIN line})>>

\* the text lines fall into two groups with disjoint horizontal spans: those
\* left of a coordinate and those right of it
TwoGroups ==
    /\ TextLines.exc = ""
    /\ \E c \in 0..(MaxCoord + 1) :
           LET lines == TextLines.val
               Left == {k \in DOMAIN lines : Extent(lines[k])[2] <= c}
               Right == {k \in DOMAIN lines : Extent(lines[k])[1] >= c}
           IN  Left # {} /\ Right # {} /\ Left \cup Right = DOMAIN lines

\* C15: if the text lines of the input fall into two groups with disjoint
\* horizontal spans, in whatever order the lines occur, split_into_columns
\* returns exactly two columns and every text line lies in exactly one.
C15_TwoGroupsTwoColumns ==
    layout_pc = "split" /\ TwoGroups =>
        /\ columns.exc = ""
        /\ Len(columns.val) = 2
        /\ \A k \in DOMAIN TextLines.val :
               Cardinality({c \in DOMAIN columns.val :
                                Range(TextLines.val[k]) \subseteq Range(columns.val[c])}) = 1

\* C16: when the column grouping gives fewer than two columns,
\* split_into_columns returns one column that is the input list itself.
C16_SingleColumnIsInput ==
    layout_pc = "split" /\ columns.exc = ""
        /\ Len(group_into_columns(TextLines.val).val) < 2 =>
            columns.val = <<layout_items>>

\* a rectangle between two characters of one column
C16_Witness ==
    /\ layout_pc = "split" /\ columns.exc = ""
    /\ Len(group_into_columns(TextLines.val).val) = 1
    /\ Len(layout_items) = 3
    /\ ~is_LTChar(layout_items[2])
    /\ columns.val = <<layout_items>>

\* the places <<column, position>> at which the returned columns hold an item
PlacesInColumns(item) ==
    {pl \in UNION {{<<c, k>> : k \in DOMAIN columns.val[c]} : c \in DOMAIN columns.val} :
        columns.val[pl[1]][pl[2]] = item}

\* C30: when split_into_columns returns two or more columns, every column is
\* non-empty and holds only items of the input, every character item of the
\* input is at exactly one place of exactly one column (so the columns are
\* pairwise disjoint), and no other item of the input is in any column.
C30_ColumnsPartitionChars ==
    layout_pc = "split" /\ columns.exc = "" /\ Len(columns.val) >= 2 =>
        /\ \A c \in DOMAIN columns.val :
               columns.val[c] # <<>> /\ Range(columns.val[c]) \subseteq Range(layout_items)
        /\ \A item \in Range(layout_items) :
               Cardinality(PlacesInColumns(item)) = IF is_LTChar(item) THEN 1 ELSE 0

\* two columns returned for an input of two characters and a rectangle
C30_Witness ==
    /\ layout_pc = "split" /\ columns.exc = "" /\ Len(columns.val) >= 2
    /\ \E i \in DOMAIN layout_items : ~is_LTChar(layout_items[i])
    /\ \E c \in DOMAIN columns.val : Len(columns.val[c]) >= 1


(***************************************************************************)
(* annotate.py: the candidate annotations of a page.                       *)
(***************************************************************************)
\* annotate.py:72-87, the keys of STRUCT_TYPE_TO_LABEL_MAP
ANNOTATED_TYPES ==
    {"P", "LI", "H1", "H2", "H3", "H4", "H5", "H6", "TOC", "TOCI", "Table",
     "Figure", "Footnote", "Note"}

MULTICOLUMN_STRUCT_TYPES == {"P", "LI"}

STRUCT_TYPE_TO_RECURSE_INTO ==
    {"Document", "NonStruct", "Part", "Art", "Sect", "Div", "P", "L", "Unknown"}

\* str(node.struct_type)[1:]: the name without its "/" for an element, "CID"
\* for a leaf made of an integer kid (struct_type 'MCID')
type_of(n) == IF n \in Leaves THEN "CID" ELSE struct_types[n]

\* Annotation.__init__
Annotation(type_, bbox, page, items) ==
    [type |-> type_, bbox |-> bbox, page |-> page, layout_items |-> items]

\* BBox.from_layout_items
from_layout_items(items) == Union([i \in DOMAIN items |-> items[i].bbox])

RECURSIVE content_of_all(_, _, _)
content_of_all(t, ns, p) ==
    IF ns = <<>> THEN <<>>
    ELSE get_content(t, Head(ns), p) \o content_of_all(t, Tail(ns), p)

\* get_content(page, recursive=True): StructElem._get_subtree_content
get_subtree_content(t, n, p) == content_of_all(t, subtree_nodes(n, TRUE), p)

\* the outcome of a generator: the tree after it ran, the exception that ended
\* it and the annotations it yielded, each with the node it is for
Yielded(t, e, v) == [tree |-> t, exc |-> e, val |-> v]

\* annotate.py:304-315, one annotation for each column
column_annotations(t, page, n, cols) ==
    IF cols.exc # "" THEN Yielded(t, cols.exc, <<>>)
    ELSE Yielded(t, "", [c \in DOMAIN cols.val |->
                            [node |-> n,
                             annotation |-> Annotation(type_of(n),
                                                       from_layout_items(cols.val[c]),
                                                       page, cols.val[c])]])

\* annotate.py:295-315, with the content and the outcome u of node.get_bbox
annotations_with(page, n, content, u) ==
    IF u.raised # "" THEN Yielded(u.tree, u.raised, <<>>)
    ELSE IF u.tree.cache[n].box[page] = NoneBox \/ content = <<>>
            \/ type_of(n) \notin ANNOTATED_TYPES
    THEN Yielded(u.tree, "", <<>>)
    ELSE IF type_of(n) \notin MULTICOLUMN_STRUCT_TYPES
    THEN Yielded(u.tree, "",
                 <<[node |-> n,
                    annotation |-> Annotation(type_of(n), u.tree.cache[n].box[page],
                                              page, content)]>>)
    ELSE column_annotations(u.tree, page, n, split_into_columns(content))

\* annotate._annotations_for_node
_annotations_for_node(t, page, n) ==
    annotations_with(page, n, get_subtree_content(t, n, page), _update_bbox_cache(t, n))

\* the same, with the items of a yielded annotation taken out of the leaves
YieldFromTakingItems(acc, own) ==
    Yielded(IF own.val = <<>> THEN own.tree
            ELSE [own.tree EXCEPT !.content = FreshTree.content],
            own.exc, IF own.exc = "" THEN acc.val \o own.val ELSE <<>>)

\* the annotations so far and those of one more node
yield_from(acc, own) ==
    Yielded(own.tree, own.exc, IF own.exc = "" THEN acc.val \o own.val ELSE <<>>)

RECURSIVE annotations_of_all(_, _, _)
\* annotate.py:318-323 unfolded: the nodes still to visit, in the order of the
\* nested generators (a node, then its children if its type is recursed
\* into, then what follows it), up to the first node that raises
annotations_of_all(acc, page, ns) ==
    IF ns = <<>> \/ acc.exc # "" THEN acc
    ELSE annotations_of_all(yield_from(acc, _annotations_for_node(acc.tree, page, Head(ns))),
                            page,
                            (IF type_of(Head(ns)) \in STRUCT_TYPE_TO_RECURSE_INTO
                             THEN children[Head(ns)] ELSE <<>>) \o Tail(ns))

\* annotate._get_annotations
_get_annotations(t, page, n) == annotations_of_all(Yielded(t, "", <<>>), page, <<n>>)

(***************************************************************************)
(* SpecAnnot: the tree is filled (_add_page, add_content_item), then       *)
(* _get_annotations is called on the top element for pages in any order.   *)
(***************************************************************************)
StructTypeChoices ==
    {(1 :> a) @@ (2 :> b) : a \in {"Sect", "Table", "P"}, b \in {"P", "Table", "H1", "Span"}}

AnnotInit ==
    /\ pages = FreshTree.pages
    /\ bbox_cache = FreshTree.cache
    /\ leaf_content = FreshTree.content
    /\ page_struct_parents = DocStructParents
    /\ struct_types \in StructTypeChoices
    /\ annotations = <<>>
    /\ annot_page = None
    /\ annot_pc = "build"
    /\ InitIdle /\ BoxIdle /\ BuildIdle /\ AttrIdle /\ LayoutIdle /\ RestIdle

AnnotAddPage(n, p) == annot_pc = "build" /\ TreeAddPage(n, p)

AnnotAddContentItem(n, p, shape, m) ==
    annot_pc = "build" /\ TreeAddContentItem(n, p, shape, m)

SetAnnotated(r) == SetTree(r.tree) /\ annotations' = [exc |-> r.exc, val |-> r.val]

\* _get_annotations(page, node, args) for the child of the root
GetAnnotations(p) ==
    /\ annot_pc \in {"build", "annotated"}
    /\ SetAnnotated(_get_annotations(TheTree, p, 1))
    /\ annot_page' = p
    /\ annot_pc' = "annotated"
    /\ UNCHANGED <<struct_types, initVars, boxVars, buildVars, attrVars, layoutVars,
                   restVars>>

AnnotNext ==
    \/ \E n \in Elements, p \in Pages : AnnotAddPage(n, p)
    \/ \E n \in Elements, p \in Pages, shape \in ItemShapes, m \in 0..MaxMcid :
           AnnotAddContentItem(n, p, shape, m)
    \/ \E p \in Pages : GetAnnotations(p)

SpecAnnot == AnnotInit /\ [][AnnotNext]_vars

\* C14: a call for page p yields an annotation for a node exactly if every
\* proper ancestor of the node has a type that is recursed into, the node has
\* a bbox on p (content that is not whitespace text below it on p, or its
\* declared bbox with p its one page), its subtree has content on p, and its
\* type is an annotated type.
C14_CandidateIffVisibleAnnotated ==
    annot_pc = "annotated" =>
        \A n \in Nodes :
               (\E i \in DOMAIN annotations.val : annotations.val[i].node = n)
               <=> /\ \A a \in Range(ancestors(n)) : type_of(a) \in STRUCT_TYPE_TO_RECURSE_INTO
                   /\ ExpectedBBox(n, annot_page) # NoneBox
                   /\ get_subtree_content(TheTree, n, annot_page) # <<>>
                   /\ type_of(n) \in ANNOTATED_TYPES


(***************************************************************************)
(* annotate.py: elimination of duplicate and contained annotations.        *)
(* Annotation defines no __eq__, so an annotation is its own identity: it  *)
(* is modelled by its position in the input list, and the list by the map  *)
(* from positions to bboxes.                                               *)
(***************************************************************************)
MaxAnnotations == 3

\* two boxes that share at least a point
OverlapsInclusive(self, other) ==
    /\ llx(self) <= urx(other) /\ llx(other) <= urx(self)
    /\ lly(self) <= ury(other) /\ lly(other) <= ury(self)

\* BBox.overlaps
overlaps(self, other) == Intersection(<<self, other>>) # NoneBox

\* annotate.find_overlaps: the pairs (a1, a2), a1 before a2
find_overlaps(annots) ==
    {<<i, j>> : i \in DOMAIN annots, j \in DOMAIN annots} \cap
    {pair \in Nat \X Nat :
        pair[1] < pair[2] /\ overlaps(annots[pair[1]], annots[pair[2]])}

\* both annotations of a pair with identical bboxes
FindDuplicatesBoth(annots, ovl, ignore) ==
    UNION {{q[1], q[2]} : q \in {r \in ovl : /\ annots[r[1]] = annots[r[2]]
                                             /\ r[1] \notin ignore
                                             /\ r[2] \notin ignore}}

\* annotate.find_duplicates
find_duplicates(annots, ovl, ignore) ==
    {pair[2] : pair \in {q \in ovl : /\ annots[q[1]] = annots[q[2]]
                                     /\ q[1] \notin ignore
                                     /\ q[2] \notin ignore}}

\* annotate.find_contained
find_contained(annots, ovl, ignore) ==
    LET differ == {q \in ovl : annots[q[1]] # annots[q[2]]}
        first(q) == contains(annots[q[1]], annots[q[2]]) /\ q[1] \notin ignore
        second(q) == contains(annots[q[2]], annots[q[1]]) /\ q[2] \notin ignore
    IN  {q[2] : q \in {r \in differ : first(r)}}
        \cup {q[1] : q \in {r \in differ : ~first(r) /\ second(r)}}

\* annotate.py:370-382, the report of the overlaps that remain: the first
\* exception of the measures it prints, "" if none
remaining_overlaps_report(annots, kept) ==
    LET pairs == {q \in find_overlaps(annots) : q[1] \in kept /\ q[2] \in kept}
        excs == {jaccard(annots[q[1]], annots[q[2]]).exc : q \in pairs}
                \cup {relative_overlap(annots[q[1]], annots[q[2]]).exc : q \in pairs}
                \cup {relative_overlap(annots[q[2]], annots[q[1]]).exc : q \in pairs}
    IN  IF excs \subseteq {""} THEN "" ELSE CHOOSE e \in excs : e # ""

\* annotate.eliminate_overlaps
eliminate_overlaps(annots) ==
    LET ovl == find_overlaps(annots)
        duplicates == find_duplicates(annots, ovl, {})
        eliminated == duplicates \cup find_contained(annots, ovl, duplicates)
        kept == SelectSeq([i \in DOMAIN annots |-> i], LAMBDA i : i \notin eliminated)
        raised == remaining_overlaps_report(annots, Range(kept))
    IN  IF raised # "" THEN Fails(raised) ELSE Ok(kept)

OverlapInit ==
    /\ ov_input \in SeqsUpTo(Boxes, MaxAnnotations)
    /\ ov_output = <<>>
    /\ ov_pc = "start"
    /\ TreeIdle /\ InitIdle /\ BoxIdle /\ BuildIdle /\ AttrIdle /\ LayoutIdle /\ AnnotIdle
    /\ ExtendIdle /\ CaptionIdle /\ LateIdle

\* eliminate_overlaps(page, annotations)
EliminateOverlaps ==
    /\ ov_pc = "start"
    /\ ov_output' = eliminate_overlaps(ov_input)
    /\ ov_pc' = "done"
    /\ UNCHANGED <<ov_input, treeVars, initVars, boxVars, buildVars, attrVars,
                   layoutVars, annotVars, extendVars, captionVars,
                   lateVars>>

OverlapNext == EliminateOverlaps

SpecOverlap == OverlapInit /\ [][OverlapNext]_vars

\* the annotations of the result
Kept == Range(ov_output.val)

\* box b lies within box a and differs from it
StrictlyInside(b, a) ==
    /\ a # b
    /\ llx(a) <= llx(b) /\ lly(a) <= lly(b) /\ urx(b) <= urx(a) /\ ury(b) <= ury(a)

\* C17: among the annotations of the input whose bboxes are identical, at
\* most one is in the result of eliminate_overlaps, and if one of them is in
\* the result it is the one with the lowest index in the input.
C17_IdenticalBBoxesKeepFirst ==
    ov_pc = "done" =>
        /\ ov_output.exc = ""
        /\ \A i \in DOMAIN ov_input :
               LET group == {j \in DOMAIN ov_input : ov_input[j] = ov_input[i]}
               IN  /\ Cardinality(group \cap Kept) <= 1
                   /\ group \cap Kept # {} => Min(group) \in Kept

\* C18: every annotation whose bbox lies strictly within the bbox of another
\* annotation of the input is absent from the result (also along chains), and
\* an annotation is absent only if its bbox is identical to or lies within
\* the bbox of another annotation of the input.
C18_ContainedDroppedOnly ==
    ov_pc = "done" =>
        /\ ov_output.exc = ""
        /\ \A i \in DOMAIN ov_input :
               (\E j \in DOMAIN ov_input : StrictlyInside(ov_input[i], ov_input[j]))
                   => i \notin Kept
        /\ \A i \in DOMAIN ov_input :
               i \notin Kept =>
                   \E j \in DOMAIN ov_input \ {i} :
                       ov_input[j] = ov_input[i] \/ StrictlyInside(ov_input[i], ov_input[j])


\* C27: every annotation that eliminate_overlaps removed has a bbox equal to
\* or lying within the bbox of an annotation of the result, and the
\* annotations of the result stand in the order of the input.
C27_RemovedIsCoveredByKept ==
    ov_pc = "done" /\ ov_output.exc = "" =>
        /\ \A i \in DOMAIN ov_input \ Kept :
               \E j \in Kept :
                   ov_input[i] = ov_input[j] \/ StrictlyInside(ov_input[i], ov_input[j])
        /\ \A k, l \in DOMAIN ov_output.val :
               k < l => ov_output.val[k] < ov_output.val[l]

\* a chain of three boxes, the innermost first, of which the outermost alone
\* is kept
C27_Witness ==
    /\ ov_pc = "done" /\ ov_output.exc = ""
    /\ Len(ov_input) = MaxAnnotations
    /\ StrictlyInside(ov_input[1], ov_input[2])
    /\ StrictlyInside(ov_input[2], ov_input[3])
    /\ ov_output.val = <<3>>

(***************************************************************************)
(* annotate.py: extension of Table bboxes by the outlines drawn around     *)
(* them.  Only the Table annotations are touched, so the annotation list   *)
(* is modelled by its tables; a table is its position in the list.         *)
(***************************************************************************)
MaxGrid == 4
GridStep == 3
MaxTables == 2
MaxOutlines == 2

\* margin=4 in the signature of extend_table_bboxes
DefaultMargin == 4

\* BBox.padded
padded(self, units) ==
    BBox(llx(self) - units, lly(self) - units, urx(self) + units, ury(self) + units)

\* annotate.py:390, the lines and rectangles among the nonmarked items
outline_candidates(nonmarked) ==
    SelectSeq(nonmarked, LAMBDA item : item.kind \in {"LTLine", "LTRect"})

\* annotate.py:402-405, the tables whose padded bbox the item overlaps
overlapped_tables(tables, item, margin) ==
    {t \in DOMAIN tables : overlaps(item.bbox, padded(tables[t], margin))}

\* one round that carries every candidate to the next
ExtendRoundKeepAll(tables, candidates, margin) ==
    LET outline_items(t) ==
            SelectSeq(candidates,
                      LAMBDA item : overlapped_tables(tables, item, margin) = {t})
        with_outline(t) == union(tables[t], from_layout_items(outline_items(t)))
        grown == {t \in DOMAIN tables :
                     outline_items(t) # <<>> /\ area(with_outline(t)) > area(tables[t])}
    IN  [exc |-> "", extended |-> grown # {},
         tables |-> [t \in DOMAIN tables |->
                        IF t \in grown THEN with_outline(t) ELSE tables[t]],
         remaining |-> candidates]

\* annotate.py:399-425, one round of the loop: the exception raised, whether
\* a table was extended, the tables and the candidates kept for the next round
extend_round(tables, candidates, margin) ==
    LET outline_items(t) ==
            SelectSeq(candidates,
                      LAMBDA item : overlapped_tables(tables, item, margin) = {t})
        remaining ==
            SelectSeq(candidates,
                      LAMBDA item : overlapped_tables(tables, item, margin) = {})
        with_outline(t) == union(tables[t], from_layout_items(outline_items(t)))
        relative_area(t) == Quotient(area(with_outline(t)), area(tables[t]))
        served == {t \in DOMAIN tables : outline_items(t) # <<>>}
        grown == {t \in served : relative_area(t).num > relative_area(t).den}
    IN  IF \E t \in served : relative_area(t).exc # ""
        THEN [exc |-> "ZeroDivisionError", extended |-> FALSE, tables |-> tables,
              remaining |-> remaining]
        ELSE [exc |-> "", extended |-> grown # {},
              tables |-> [t \in DOMAIN tables |->
                             IF t \in grown THEN with_outline(t) ELSE tables[t]],
              remaining |-> remaining]

\* the loop with a single round
ExtendSingleRound(tables, nonmarked, margin) ==
    LET r == extend_round(tables, outline_candidates(nonmarked), margin)
    IN  IF r.exc # "" THEN Fails(r.exc) ELSE Ok(r.tables)

RECURSIVE extend_loop(_, _, _)
\* annotate.py:392-429, while True
extend_loop(tables, candidates, margin) ==
    LET r == extend_round(tables, candidates, margin)
    IN  IF r.exc # "" THEN Fails(r.exc)
        ELSE IF ~r.extended THEN Ok(r.tables)
        ELSE extend_loop(r.tables, r.remaining, margin)

\* annotate.extend_table_bboxes
extend_table_bboxes(tables, nonmarked, margin) ==
    extend_loop(tables, outline_candidates(nonmarked), margin)

GridSpans == {<<a * GridStep, b * GridStep>> : a \in 0..MaxGrid, b \in 0..MaxGrid}

\* boxes one grid step high over every span of positive width, and one of
\* zero height
GridBoxes == {BBox(sp[1], 0, sp[2], GridStep) : sp \in {g \in GridSpans : g[1] < g[2]}}
FlatBox == BBox(0, 0, GridStep, 0)

TableShapes == GridBoxes \cup {FlatBox}

NonmarkedShapes ==
    {[kind |-> "LTRect", bbox |-> b] : b \in GridBoxes}
    \cup {[kind |-> "LTLine", bbox |-> FlatBox],
          [kind |-> "LTCurve", bbox |-> BBox(0, 0, MaxGrid * GridStep, GridStep)]}

ExtendInit ==
    /\ ext_tables \in SeqsUpTo(TableShapes, MaxTables)
    /\ ext_nonmarked \in SeqsUpTo(NonmarkedShapes, MaxOutlines)
    /\ ext_first = <<>>
    /\ ext_second = <<>>
    /\ ext_pc = "start"
    /\ TreeIdle /\ InitIdle /\ BoxIdle /\ BuildIdle /\ AttrIdle /\ LayoutIdle /\ AnnotIdle
    /\ OverlapIdle /\ CaptionIdle /\ LateIdle

\* extend_table_bboxes(page, annotations, nonmarked)
ExtendFirst ==
    /\ ext_pc = "start"
    /\ ext_first' = extend_table_bboxes(ext_tables, ext_nonmarked, DefaultMargin)
    /\ ext_pc' = "first"
    /\ UNCHANGED <<ext_tables, ext_nonmarked, ext_second, treeVars, initVars, boxVars,
                   buildVars, attrVars, layoutVars, annotVars, overlapVars, captionVars,
                   lateVars>>

\* the same call again, on the tables the first one returned
ExtendSecond ==
    /\ ext_pc = "first"
    /\ ext_first.exc = ""
    /\ ext_second' = extend_table_bboxes(ext_first.val, ext_nonmarked, DefaultMargin)
    /\ ext_pc' = "second"
    /\ UNCHANGED <<ext_tables, ext_nonmarked, ext_first, treeVars, initVars, boxVars,
                   buildVars, attrVars, layoutVars, annotVars, overlapVars, captionVars,
                   lateVars>>

ExtendNext == ExtendFirst \/ ExtendSecond

SpecExtend == ExtendInit /\ [][ExtendNext]_vars

\* C19: a second run of extend_table_bboxes, with the same candidate
\* graphics, on the tables the first run produced returns and changes no
\* table's bbox.
C19_ExtensionIdempotent ==
    ext_pc = "second" => ext_second.exc = "" /\ ext_second.val = ext_first.val

\* past the second run, the first having extended a table in one round far
\* enough to reach, in a later round, a candidate that overlapped no table
C19_Witness ==
    /\ ext_pc = "second"
    /\ ext_first.val # ext_tables
    /\ \E i \in DOMAIN ext_nonmarked :
           Cardinality(overlapped_tables(ext_tables, ext_nonmarked[i], DefaultMargin)) = 0
           /\ Cardinality(overlapped_tables(ext_first.val, ext_nonmarked[i], DefaultMargin)) > 0


(***************************************************************************)
(* The caption assigner.  Its code is not among the sources; it is         *)
(* modelled from section 4.6 of the specification.  An annotation's text   *)
(* is the sequence of its tokens: "ws" for a run of whitespace, a keyword  *)
(* of the lexicon, a numeral, or any other word.                           *)
(***************************************************************************)
MaxCaptionAnnotations == 3

CAPTION_ELIGIBLE_TYPES == {"Table", "Figure"}

CAPTION_KEYWORDS == {"Figure", "Fig.", "Table", "Kuva", "Taulukko", "Bild", "Figur", "Tabell"}

Numerals == {"1", "2"}

RECURSIVE lstrip(_)
\* the text without its leading whitespace
lstrip(text) == IF text # <<>> /\ Head(text) = "ws" THEN lstrip(Tail(text)) ELSE text

\* the caption-keyword pattern, anchored at the start of the text: a keyword,
\* whitespace, a numeral
matches_caption_pattern(text) ==
    LET t == lstrip(text)
    IN  /\ Len(t) >= 3
        /\ t[1] \in CAPTION_KEYWORDS
        /\ t[2] = "ws"
        /\ t[3] \in Numerals

\* BBox.horizontally_overlaps
horizontally_overlaps(self, other) == llx(self) < urx(other) /\ llx(other) < urx(self)

\* the candidates of annotation t that lie above it (dir = "above") or below
caption_candidates(annots, t, dir) ==
    {c \in DOMAIN annots \ {t} :
        /\ horizontally_overlaps(annots[c].bbox, annots[t].bbox)
        /\ IF dir = "above" THEN lly(annots[c].bbox) >= ury(annots[t].bbox)
                            ELSE ury(annots[c].bbox) <= lly(annots[t].bbox)}

\* the vertical distance of candidate c from annotation t
vertical_distance(annots, t, c, dir) ==
    IF dir = "above" THEN lly(annots[c].bbox) - ury(annots[t].bbox)
                     ELSE lly(annots[t].bbox) - ury(annots[c].bbox)

RECURSIVE sort_by_distance(_, _, _, _)
\* the candidates by vertical distance ascending, in list order where equal
sort_by_distance(annots, t, cands, dir) ==
    IF cands = {} THEN <<>>
    ELSE LET nearest == CHOOSE c \in cands : \A d \in cands :
                 \/ vertical_distance(annots, t, c, dir) < vertical_distance(annots, t, d, dir)
                 \/ /\ vertical_distance(annots, t, c, dir) = vertical_distance(annots, t, d, dir)
                    /\ c <= d
         IN  <<nearest>> \o sort_by_distance(annots, t, cands \ {nearest}, dir)

\* what is done for one table or figure: the candidates tested, in order,
\* and the candidates relabeled
NoCaptionLog == [visited |-> FALSE, tested |-> <<>>, relabeled |-> {}]

\* the first of a sorted list, as a list
first_of(sorted) == IF sorted = <<>> THEN <<>> ELSE <<sorted[1]>>

\* the pass for annotation t with the below candidate tested in every case
CaptionBothSides(annots, t) ==
    LET above == sort_by_distance(annots, t, caption_candidates(annots, t, "above"), "above")
        below == sort_by_distance(annots, t, caption_candidates(annots, t, "below"), "below")
        firsts == first_of(above) \o first_of(below)
    IN  [visited |-> TRUE, tested |-> firsts,
         relabeled |-> {c \in Range(firsts) : matches_caption_pattern(annots[c].text)}]

\* the pass for annotation t
assign_caption(annots, t) ==
    LET above == sort_by_distance(annots, t, caption_candidates(annots, t, "above"), "above")
        below == sort_by_distance(annots, t, caption_candidates(annots, t, "below"), "below")
    IN  IF above # <<>> /\ matches_caption_pattern(annots[above[1]].text)
        THEN [visited |-> TRUE, tested |-> <<above[1]>>, relabeled |-> {above[1]}]
        ELSE IF below # <<>> /\ matches_caption_pattern(annots[below[1]].text)
        THEN [visited |-> TRUE, tested |-> first_of(above) \o <<below[1]>>,
              relabeled |-> {below[1]}]
        ELSE [visited |-> TRUE, tested |-> first_of(above) \o first_of(below),
              relabeled |-> {}]

RECURSIVE assign_captions(_, _, _)
\* the pass over the annotations of a page, from annotation t on: the
\* annotations after it and the log of what was done for each table or figure
assign_captions(annots, log, t) ==
    IF t > Len(annots) THEN [annotations |-> annots, log |-> log]
    ELSE IF annots[t].type \notin CAPTION_ELIGIBLE_TYPES
    THEN assign_captions(annots, log, t + 1)
    ELSE LET done == assign_caption(annots, t)
         IN  assign_captions([c \in DOMAIN annots |->
                                 IF c \in done.relabeled
                                 THEN [annots[c] EXCEPT !.type = "Caption"]
                                 ELSE annots[c]],
                             [log EXCEPT ![t] = done], t + 1)

CaptionBoxes ==
    {BBox(x[1], y, x[2], y + 1) : x \in {<<0, 2>>, <<2, 3>>}, y \in 0..2}

CaptionTexts ==
    {<<"ws", "Figure", "ws", "1">>, <<"Table", "results">>,
     <<"results", "Table", "ws", "1">>}

CaptionAnnotations ==
    [type : {"Table", "Figure", "P"}, bbox : CaptionBoxes, text : CaptionTexts]

CaptionInit ==
    /\ cap_annotations \in SeqsUpTo(CaptionAnnotations, MaxCaptionAnnotations)
    /\ cap_output = <<>>
    /\ cap_log = <<>>
    /\ cap_pc = "start"
    /\ TreeIdle /\ InitIdle /\ BoxIdle /\ BuildIdle /\ AttrIdle /\ LayoutIdle /\ AnnotIdle
    /\ OverlapIdle /\ ExtendIdle /\ LateIdle

\* the caption pass over the annotations of a page
AssignCaptions ==
    /\ cap_pc = "start"
    /\ LET r == assign_captions(cap_annotations,
                                [t \in DOMAIN cap_annotations |-> NoCaptionLog], 1)
       IN  cap_output' = r.annotations /\ cap_log' = r.log
    /\ cap_pc' = "done"
    /\ UNCHANGED <<cap_annotations, treeVars, initVars, boxVars, buildVars, attrVars, layoutVars,
                   annotVars, overlapVars, extendVars, lateVars>>

CaptionNext == AssignCaptions

SpecCaption == CaptionInit /\ [][CaptionNext]_vars

\* candidate c is the nearest annotation on side dir of t that horizontally
\* overlaps it (the earlier in the list of two equally near)
IsNearest(c, t, dir) ==
    /\ c \in caption_candidates(cap_annotations, t, dir)
    /\ \A d \in caption_candidates(cap_annotations, t, dir) \ {c} :
           \/ vertical_distance(cap_annotations, t, c, dir)
                  < vertical_distance(cap_annotations, t, d, dir)
           \/ /\ vertical_distance(cap_annotations, t, c, dir)
                     = vertical_distance(cap_annotations, t, d, dir)
              /\ c < d

Matches(c) == matches_caption_pattern(cap_annotations[c].text)

LoopTableShapes ==
    {BBox(0, 0, GridStep, GridStep), FlatBox, BBox(3 * GridStep, 0, 4 * GridStep, 1)}

\* graphics: the cell right of the first, the cell two further to the right,
\* a rectangle above and between the two tables, a horizontal and a vertical
\* rule inside the first cell, and a curve
LoopNonmarkedShapes ==
    {[kind |-> "LTRect", bbox |-> BBox(GridStep, 0, 2 * GridStep, GridStep)],
     [kind |-> "LTRect", bbox |-> BBox(3 * GridStep, 0, 4 * GridStep, GridStep)],
     [kind |-> "LTRect", bbox |-> BBox(2 * GridStep, 2 * GridStep, 4 * GridStep, 3 * GridStep)],
     [kind |-> "LTLine", bbox |-> FlatBox],
     [kind |-> "LTLine", bbox |-> BBox(1, 0, 1, GridStep)],
     [kind |-> "LTCurve", bbox |-> BBox(0, 0, 4 * GridStep, GridStep)]}

LoopInit ==
    /\ ext_tables \in SeqsUpTo(LoopTableShapes, MaxTables)
    /\ ext_nonmarked \in SeqsUpTo(LoopNonmarkedShapes, MaxOutlines)
    /\ ext_first = <<>> /\ ext_second = <<>> /\ ext_pc = "idle"
    /\ loop_tables = <<>>
    /\ loop_candidates = <<>>
    /\ loop_passes = 0
    /\ loop_pc = "start"
    /\ TreeIdle /\ InitIdle /\ BoxIdle /\ BuildIdle /\ AttrIdle /\ LayoutIdle /\ AnnotIdle
    /\ OverlapIdle /\ CaptionIdle /\ RaceIdle

\* annotate.py:390-391
LoopStart ==
    /\ loop_pc = "start"
    /\ loop_candidates' = outline_candidates(ext_nonmarked)
    /\ loop_tables' = ext_tables
    /\ loop_pc' = "loop"
    /\ UNCHANGED <<loop_passes, extendVars, treeVars, initVars, boxVars, buildVars,
                   attrVars, layoutVars, annotVars, overlapVars, captionVars,
                   raceVars>>

\* the state after a pass with outcome r
AfterPass(r) ==
    IF r.exc # "" THEN loop_pc' = "raised" /\ UNCHANGED <<loop_tables, loop_candidates>>
    ELSE IF ~r.extended THEN loop_pc' = "done" /\ UNCHANGED <<loop_tables, loop_candidates>>
    ELSE loop_tables' = r.tables /\ loop_candidates' = r.remaining /\ loop_pc' = "loop"

\* annotate.py:392-428, one pass of while True
LoopPass ==
    /\ loop_pc = "loop"
    /\ AfterPass(extend_round(loop_tables, loop_candidates, DefaultMargin))
    /\ loop_passes' = loop_passes + 1
    /\ UNCHANGED <<extendVars, treeVars, initVars, boxVars, buildVars, attrVars,
                   layoutVars, annotVars, overlapVars, captionVars, raceVars>>

LoopNext == LoopStart \/ LoopPass

\* a pass of the loop seen from outside: the loop is running and the count of
\* passes goes up (a pass can be made whenever the loop is running)
LoopRuns == loop_pc = "loop" /\ loop_passes' = loop_passes + 1

\* the call starts, and a loop that is running makes its next pass
SpecExtendLoop ==
    LoopInit /\ [][LoopNext]_vars /\ WF_loop_pc(LoopStart) /\ WF_loop_passes(LoopRuns)

\* C23: every pass that applies an extension carries fewer candidates to the
\* next pass than it was given, a pass that applies no extension is the last,
\* and the loop comes to its end.
C23_FixpointLoopTerminates ==
    /\ [][loop_pc = "loop" /\ loop_tables' # loop_tables
             => Len(loop_candidates') < Len(loop_candidates)]_vars
    /\ [][loop_pc = "loop" /\ loop_passes' # loop_passes /\ loop_tables' = loop_tables
             => loop_pc' \in {"done", "raised"}]_vars
    /\ <>(loop_pc \in {"done", "raised"})

\* the loop at its end after two passes that extended a table
C23_Witness == loop_pc = "done" /\ loop_passes >= 3

\* C24: two tables whose bboxes do not overlap before the loop do not overlap
\* after it.
C24_NoNewTableOverlap ==
    loop_pc = "done" =>
        \A i, j \in DOMAIN ext_tables :
            i # j /\ ~overlaps(ext_tables[i], ext_tables[j])
                => ~overlaps(loop_tables[i], loop_tables[j])

\* the rules among the candidates: boxes of zero width or height
Rules ==
    {item \in Range(outline_candidates(ext_nonmarked)) : is_empty(item.bbox)}

Occurrences(item, items) == Cardinality({k \in DOMAIN items : items[k] = item})

\* C28: a candidate of zero width or height overlaps no table's padded bbox,
\* also when it lies inside it, and is among the candidates of every pass.
C28_RulesNeverOverlap ==
    loop_pc \in {"loop", "done", "raised"} =>
        \A item \in Rules :
            /\ overlapped_tables(loop_tables, item, DefaultMargin) = {}
            /\ Occurrences(item, loop_candidates) = Occurrences(item, ext_nonmarked)

\* the loop at its end, a table extended, with a rule that lies inside the
\* bbox of a table
C28_Witness ==
    /\ loop_pc = "done" /\ loop_passes >= 2
    /\ \E item \in Rules : \E t \in DOMAIN loop_tables :
           Covers(loop_tables[t], item.bbox) /\ ~is_empty(loop_tables[t])

(***************************************************************************)
(* SpecPipeline: the tree is filled (_add_page, add_content_item), then    *)
(* annotate.get_annotations is called for pages in any order, with any of  *)
(* the argument sets below and any of the crop boxes.  An Annotation holds *)
(* the list _get_subtree_content or split_into_columns built for it, and   *)
(* trim_bbox and crop assign new lists and boxes to its fields.            *)
(* tagged_pdf.nonmarked_by_page is what TaggedPdf.__init__ left there.     *)
(***************************************************************************)
TRIMMABLE_STRUCT_TYPES == {"P", "H1", "H2", "H3", "H4", "H5", "H6", "Note"}

\* Annotation.trim_bbox: get_text raises for an item without text
trim_bbox(a) ==
    LET trimmed_items ==
            SelectSeq(a.layout_items,
                      LAMBDA item : item.text \notin {"notext", "", " "})
    IN  [a EXCEPT !.layout_items = trimmed_items,
                  !.bbox = from_layout_items(trimmed_items)]

\* Annotation.crop
crop(a, cropbox) ==
    LET cropped_items ==
            SelectSeq(a.layout_items,
                      LAMBDA item : intersection(cropbox, item.bbox) # NoneBox)
        bbox == from_layout_items(cropped_items)
    IN  IF cropped_items = a.layout_items
        THEN [a EXCEPT !.bbox = intersection(cropbox, a.bbox)]
        ELSE [a EXCEPT !.layout_items = cropped_items,
                       !.bbox = IF bbox = NoneBox THEN NoneBox
                                ELSE intersection(cropbox, bbox)]

with_bbox(annots) == SelectSeq(annots, LAMBDA a : a.bbox # NoneBox)

\* annotate.py:439-446
trim_all(annots, args) ==
    IF args.no_text_bbox_trim THEN annots
    ELSE with_bbox([i \in DOMAIN annots |->
                       IF annots[i].type \in TRIMMABLE_STRUCT_TYPES
                       THEN trim_bbox(annots[i]) ELSE annots[i]])

\* annotate.py:448-455
crop_all(annots, args, cropbox) ==
    IF args.no_crop THEN annots
    ELSE with_bbox([i \in DOMAIN annots |-> crop(annots[i], cropbox)])

\* annotate.py:457-458
eliminate_all(annots, args) ==
    IF args.keep_overlaps THEN Ok(annots)
    ELSE LET r == eliminate_overlaps([i \in DOMAIN annots |-> annots[i].bbox])
         IN  IF r.exc # "" THEN Fails(r.exc)
             ELSE Ok([k \in DOMAIN r.val |-> annots[r.val[k]]])

\* the positions of the Table annotations, in order
table_positions(annots) ==
    SelectSeq([i \in DOMAIN annots |-> i], LAMBDA i : annots[i].type = "Table")

\* annotate.py:460-462: None[page] raises TypeError
extend_all(r, args, page, nonmarked) ==
    IF r.exc # "" \/ args.no_table_bbox_extension THEN r
    ELSE IF nonmarked = None THEN Fails("TypeError")
    ELSE LET pos == table_positions(r.val)
             e == extend_table_bboxes([k \in DOMAIN pos |-> r.val[pos[k]].bbox],
                                      nonmarked[page], DefaultMargin)
         IN  IF e.exc # "" THEN Fails(e.exc)
             ELSE Ok([i \in DOMAIN r.val |->
                         IF r.val[i].type = "Table"
                         THEN [r.val[i] EXCEPT !.bbox =
                                  e.val[CHOOSE k \in DOMAIN pos : pos[k] = i]]
                         ELSE r.val[i]])

\* annotate.py:439-464, with the outcome of the generators of line 434-437
processed(cand, page, args, cropbox, nonmarked) ==
    IF cand.exc # "" THEN Yielded(cand.tree, cand.exc, <<>>)
    ELSE LET r == extend_all(
                      eliminate_all(
                          crop_all(trim_all([i \in DOMAIN cand.val |->
                                                cand.val[i].annotation], args),
                                   args, cropbox),
                          args),
                      args, page, nonmarked)
         IN  Yielded(cand.tree, r.exc, r.val)

\* annotate.get_annotations; the one child of the root is element 1
get_annotations(t, page, args, cropbox, nonmarked) ==
    processed(_get_annotations(t, page, 1), page, args, cropbox, nonmarked)

Args(trim, crop_, keep, ext) ==
    [no_text_bbox_trim |-> trim, no_crop |-> crop_, keep_overlaps |-> keep,
     no_table_bbox_extension |-> ext]

ArgsChoices ==
    {Args(FALSE, FALSE, FALSE, FALSE), Args(FALSE, FALSE, FALSE, TRUE),
     Args(FALSE, TRUE, TRUE, TRUE), Args(TRUE, TRUE, TRUE, TRUE)}

\* TaggedPdf.get_cropbox: the whole page, or its right part
CropBoxes == {BBox(0, 0, MaxCoord, MaxCoord), BBox(1, 0, MaxCoord, MaxCoord)}

\* get_annotations(page, tagged_pdf, args)
ProcessPage(p, args, cropbox) ==
    /\ annot_pc \in {"build", "processed"}
    /\ SetAnnotated(get_annotations(TheTree, p, args, cropbox, nonmarked_by_page))
    /\ annot_page' = p
    /\ annot_pc' = "processed"
    /\ UNCHANGED <<struct_types, initVars, boxVars, buildVars, attrVars, layoutVars,
                   restVars>>

PipelineNext ==
    \/ \E n \in Elements, p \in Pages : AnnotAddPage(n, p)
    \/ \E n \in Elements, p \in Pages, shape \in ItemShapes, m \in 0..MaxMcid :
           AnnotAddContentItem(n, p, shape, m)
    \/ \E p \in Pages, args \in ArgsChoices, cropbox \in CropBoxes :
           ProcessPage(p, args, cropbox)

SpecPipeline == AnnotInit /\ [][PipelineNext]_vars

\* C22: a call of get_annotations, for any page and after calls for any
\* pages, leaves the page sets and the per-page content lists of the leaves
\* as they were (children and parent are fixed once the tree is built); of
\* the tree it changes bbox cache cells only, and these hold what get_bbox
\* computed, whatever trimming, cropping, elimination and extension did to
\* the annotations.
C22_ProcessingLeavesTreeUnchanged ==
    [][annot_pc' = "processed" =>
           /\ pages' = pages
           /\ leaf_content' = leaf_content
           /\ bbox_cache' = _get_annotations(TheTree, annot_page', 1).tree.cache]_vars

\* C22 witness: a call ended without exception with an annotation that
\* trimming left with fewer items and another bbox than its node has in the
\* tree
C22_Witness ==
    /\ annot_pc = "processed" /\ annotations.exc = ""
    /\ \E i \in DOMAIN annotations.val : \E n \in Elements :
           /\ type_of(n) = annotations.val[i].type
           /\ bbox_cache[n].valid
           /\ bbox_cache[n].box[annot_page] # NoneBox
           /\ annotations.val[i].bbox # bbox_cache[n].box[annot_page]
           /\ Len(annotations.val[i].layout_items)
                  < Len(get_subtree_content(TheTree, n, annot_page))

(***************************************************************************)
(* SpecRace: the tree is filled (_add_page, add_content_item), then two    *)
(* threads call get_bbox on one node, one for page 0 and one for page 1,   *)
(* as two per-page extractions running side by side do                     *)
(* (annotate.py:295).  A thread is named by its page.  Its steps are the   *)
(* test of line 127, the assignment of line 130 with the reads up to line  *)
(* 143, one turn of the loop of lines 152-165 (the get_bbox calls on the   *)
(* nodes below taken as one step), and the read of line 102.               *)
(***************************************************************************)
RECURSIVE sorted(_)
\* sorted(self._pages)
sorted(ps) == IF ps = {} THEN <<>> ELSE <<Min(ps)>> \o sorted(ps \ {Min(ps)})

EmptyCache == [valid |-> TRUE, box |-> [p \in Pages |-> NoneBox]]

RaceInit ==
    /\ race_node \in Nodes
    /\ race_pc = [p \in Pages |-> "wait"]
    /\ race_todo = [p \in Pages |-> <<>>]
    /\ race_ret = [p \in Pages |-> <<>>]
    /\ TreeIdle /\ InitIdle /\ BoxIdle /\ BuildIdle /\ AttrIdle /\ LayoutIdle /\ AnnotIdle
    /\ OverlapIdle /\ ExtendIdle /\ CaptionIdle /\ LoopIdle

NotStarted == \A p \in Pages : race_pc[p] = "wait"

RaceAddPage(n, p) == NotStarted /\ TreeAddPage(n, p)

RaceAddContentItem(n, p, shape, m) == NotStarted /\ TreeAddContentItem(n, p, shape, m)

RaceFrame ==
    UNCHANGED <<race_node, initVars, boxVars, buildVars, attrVars, layoutVars, annotVars,
                overlapVars, extendVars, captionVars, loopVars>>

\* structtree.py:101 and 127: get_bbox(page) enters _update_bbox_cache
RaceTest(p) ==
    /\ race_pc[p] = "wait"
    /\ race_pc' = [race_pc EXCEPT ![p] = IF bbox_cache[race_node].valid
                                        THEN "get" ELSE "assign"]
    /\ UNCHANGED <<treeVars, race_todo, race_ret>>
    /\ RaceFrame

\* structtree.py:130-143
RaceAssign(p) ==
    /\ race_pc[p] = "assign"
    /\ bbox_cache' = [bbox_cache EXCEPT ![race_node] = EmptyCache]
    /\ race_todo' = [race_todo EXCEPT ![p] = sorted(pages[race_node])]
    /\ IF /\ attr_bboxes[race_node] # <<>> /\ Cardinality(pages[race_node]) # 1
          /\ write_struct_tree_pdfinfo(race_node) # ""
       THEN /\ race_ret' = [race_ret EXCEPT
                                ![p] = Fails(write_struct_tree_pdfinfo(race_node))]
            /\ race_pc' = [race_pc EXCEPT ![p] = "done"]
       ELSE /\ race_pc' = [race_pc EXCEPT ![p] = "fill"]
            /\ UNCHANGED race_ret
    /\ UNCHANGED <<pages, leaf_content>>
    /\ RaceFrame

\* structtree.py:155-165, the box of a page from the tree t in which the
\* nodes below have their caches
page_box(t, n, page) ==
    LET NotSpace(item) == ~is_space_text_item(item)
        BoxOf(item) == item.bbox
        Cached(d) == t.cache[d].box[page]
        Present(b) == b # NoneBox
    IN  Union(MapSeq(SelectSeq(get_content(t, n, page), NotSpace), BoxOf)
              \o SelectSeq(MapSeq(subtree_nodes(n, FALSE), Cached), Present)
              \o attr_bboxes[n])

\* the state after a turn of the loop, r the outcome of the calls below
AfterTurn(p, r, page) ==
    IF r.raised # ""
    THEN /\ SetTree(r.tree)
         /\ race_ret' = [race_ret EXCEPT ![p] = Fails(r.raised)]
         /\ race_pc' = [race_pc EXCEPT ![p] = "done"]
         /\ UNCHANGED race_todo
    ELSE /\ SetTree([r.tree EXCEPT !.cache[race_node].box[page] =
                                       page_box(r.tree, race_node, page)])
         /\ race_todo' = [race_todo EXCEPT ![p] = Tail(@)]
         /\ UNCHANGED <<race_pc, race_ret>>

\* structtree.py:152-165, one turn of the loop over the pages
RaceFill(p) ==
    /\ race_pc[p] = "fill"
    /\ IF race_todo[p] = <<>>
       THEN /\ race_pc' = [race_pc EXCEPT ![p] = "get"]
            /\ UNCHANGED <<treeVars, race_todo, race_ret>>
       ELSE AfterTurn(p, update_all(TheTree, subtree_nodes(race_node, FALSE)),
                      Head(race_todo[p]))
    /\ RaceFrame

\* structtree.py:102
RaceGet(p) ==
    /\ race_pc[p] = "get"
    /\ race_ret' = [race_ret EXCEPT ![p] = Ok(bbox_cache[race_node].box[p])]
    /\ race_pc' = [race_pc EXCEPT ![p] = "done"]
    /\ UNCHANGED <<treeVars, race_todo>>
    /\ RaceFrame

RaceNext ==
    \/ \E n \in Elements, p \in Pages : RaceAddPage(n, p)
    \/ \E n \in Elements, p \in Pages, shape \in ItemShapes, m \in 0..MaxMcid :
           RaceAddContentItem(n, p, shape, m)
    \/ \E p \in Pages : RaceTest(p)
    \/ \E p \in Pages : RaceAssign(p)
    \/ \E p \in Pages : RaceFill(p)
    \/ \E p \in Pages : RaceGet(p)

SpecRace == RaceInit /\ [][RaceNext]_vars

\* what a get_bbox call that went through _update_bbox_cache with outcome u
\* returns for page p
outcome(u, n, p) ==
    IF u.raised # "" THEN Fails(u.raised) ELSE Ok(u.tree.cache[n].box[p])

\* the outcomes of the two calls made one after the other, on the tree as it
\* was when the first began (no cache was filled before)
one_after_the_other(first, second) ==
    LET u1 == _update_bbox_cache(Tree(pages, FreshTree.cache, leaf_content), race_node)
        u2 == _update_bbox_cache(u1.tree, race_node)
    IN  (first :> outcome(u1, race_node, first)) @@ (second :> outcome(u2, race_node, second))

\* C21: two get_bbox calls on a node for different pages, interleaved at any
\* step, return what they return when made one after the other, in one of
\* the two orders.
C21_InterleavedAsSequential ==
    (DOMAIN race_pc = Pages /\ \A p \in Pages : race_pc[p] = "done") =>
        \E first \in Pages : \E second \in Pages \ {first} :
            race_ret = one_after_the_other(first, second)

====
